---- MODULE Spec2Model ----
(***************************************************************************)
(* State-machine model of the GridChaos control plane                      *)
(* (src/src/controller.py, src/src/chaos.py, src/src/simulation.py).       *)
(*                                                                         *)
(* Every GridController operation runs under `with self._lock`, so each    *)
(* operation is one atomic action.  Optional values (Python None) are      *)
(* sequences of length 0 or 1; optional strings use the string "None".     *)
(* Floats are fixed point: powers in MW units, fractions in 1/10000.       *)
(***************************************************************************)
EXTENDS Integers, Sequences, FiniteSets, TLC

VARIABLES
    net,                  \* GridController.net: the pandapower network
    active_experiment,    \* GridController.active_experiment: <<>> or <<Experiment>>
    simulation_id,        \* GridController.simulation_id (lineage id)
    last_mutation_source, \* GridController.last_mutation_source
    uuid_count,           \* number of uuid.uuid4() values drawn so far
    lineages,             \* history: every simulation_id the controller has had
    last,                 \* history: the last operation, its inputs and what it returned
    pending,              \* api.py: the requests between two controller calls
    READ_ONLY_MODE,       \* api.py: the read-only toggle, fixed at start-up
    injected_since_begin, \* history: an inject request applied its scenario
                          \* under the ACTIVE experiment now installed
    lock,                 \* self._lock: 0 when free, else the thread holding it
    threads               \* each thread's position in the operation it runs

vars == <<net, active_experiment, simulation_id, last_mutation_source,
          uuid_count, lineages, last, pending, READ_ONLY_MODE,
          injected_since_begin, lock, threads>>

\* The lock and the threads; an operation taken as one step finds the lock
\* free and leaves it free.
lock_state == <<lock, threads>>

\* What lies outside the controller object.
api_state == <<pending, READ_ONLY_MODE, injected_since_begin>>

-----------------------------------------------------------------------------
(* Bounds of the model *)

\* uuid4() values that may be drawn in one behaviour (reset, begin, rollback).
MaxUuid == 4
\* |total load| a mutation may reach; larger products are not explored.
MaxLoad == 400
\* The network's lines are indexed 0..MaxLine.
MaxLine == 4
\* API requests that may be between two controller calls at the same time.
MaxPending == 2
\* Controller calls of other requests that may take effect while a request is
\* between two controller calls.
MaxOvertake == 1
\* Threads that call the controller concurrently.
NumThreads == 2

-----------------------------------------------------------------------------
(* simulation.py: the network and its solver *)

LineIndex == 0..MaxLine

\* Total p_mw of net.load on the freshly built network (MW).
BaseLoad == 100
\* Power the solved baseline draws from its generators and external grid (MW):
\* load plus line losses.
BaseGen == 105

\* create_grid(): pn.case14(), every element in service, nothing applied.
create_grid ==
    [ line_in_service     |-> [l \in LineIndex |-> TRUE],
      load_p_mw           |-> BaseLoad,
      ext_grid_in_service |-> TRUE,
      ext_grid_vm_pu      |-> 106,
      gen_in_service      |-> TRUE,
      gen_max_q_pct       |-> 100,
      chaos_applied       |-> {} ]

\* What run_simulation returns: <<>> is None (the solve failed), otherwise the
\* snapshot dict; generation_mw is the solver's res_gen + res_ext_grid.
SnapshotDict(n, g) ==
    [ converged |-> TRUE, total_load_mw |-> n.load_p_mw, generation_mw |-> g ]

\* Generation a converged solve of a mutated network may report.
GenerationOutcomes(n) ==
    {n.load_p_mw \div 3, n.load_p_mw \div 2, n.load_p_mw + (BaseGen - BaseLoad)}

\* The part of the network the power flow reads.
Physical(n) == [n EXCEPT !.chaos_applied = {}]

\* run_simulation(net): the outcomes pp.runpp may produce.  The fresh case14
\* grid converges (tests/test_physics.py); for any other network the solver
\* may fail or converge with any generation.
run_simulation(n) ==
    IF Physical(n) = create_grid
    THEN { <<SnapshotDict(n, BaseGen)>> }
    ELSE { <<>> } \cup { <<SnapshotDict(n, g)>> : g \in GenerationOutcomes(n) }

-----------------------------------------------------------------------------
(* chaos.py: the scenario library.  A mutation function returns the network *)
(* it leaves behind and the exception it raised ("None" when it returned).  *)

Returned(n) == [ raised |-> "None", net |-> n ]
Raised(e, n) == [ raised |-> e, net |-> n ]

\* net.load["p_mw"] *= m, the multiplier given in tenths.
Scale(p_mw, tenths) == (p_mw * tenths) \div 10

\* _ensure_single_apply that does not look at the marker.
ensure_single_apply_repeatable(n, scenario_key) ==
    Returned([n EXCEPT !.chaos_applied = @ \cup {scenario_key}])

\* _ensure_single_apply(net, scenario_key)
ensure_single_apply(n, scenario_key) ==
    IF scenario_key \in n.chaos_applied
    THEN Raised("RuntimeError", n)
    ELSE Returned([n EXCEPT !.chaos_applied = @ \cup {scenario_key}])

event_hurricane_ida_flash_flood(n) ==
    LET r == ensure_single_apply(n, "hurricane_ida") IN
    IF r.raised # "None" THEN r
    ELSE Returned([r.net EXCEPT !.ext_grid_in_service = FALSE,
                                !.load_p_mw = Scale(@, 30)])

event_heatwave_2023_voltage_collapse(n) ==
    LET r == ensure_single_apply(n, "heatwave_2023") IN
    IF r.raised # "None" THEN r
    ELSE Returned([r.net EXCEPT !.ext_grid_vm_pu = 92,
                                !.load_p_mw = Scale(@, 21),
                                !.gen_max_q_pct = @ \div 2])

event_staten_island_ev_fleet_spike(n) ==
    LET r == ensure_single_apply(n, "ev_fleet_spike") IN
    IF r.raised # "None" THEN r
    ELSE Returned([r.net EXCEPT !.ext_grid_vm_pu = 94,
                                !.load_p_mw = Scale(@, 35)])

event_sandy_protection_miscoord(n) ==
    LET r == ensure_single_apply(n, "sandy_2012") IN
    IF r.raised # "None" THEN r
    ELSE Returned([r.net EXCEPT !.gen_in_service = FALSE,
                                !.load_p_mw = Scale(@, 50)])

\* trip_line without the index guard: pandas' .at setter then adds the row.
trip_line_unguarded(n, line_id) ==
    [n EXCEPT !.line_in_service =
        [l \in DOMAIN @ \cup {line_id} |-> IF l = line_id THEN FALSE ELSE @[l]]]

\* net.line.at[line_id, "in_service"] = False, guarded by `line_id in net.line.index`
trip_line(n, line_id) ==
    IF line_id \in DOMAIN n.line_in_service
    THEN [n EXCEPT !.line_in_service[line_id] = FALSE]
    ELSE n

event_2003_blackout_cascade(n) ==
    LET r == ensure_single_apply(n, "blackout_2003") IN
    IF r.raised # "None" THEN r
    ELSE Returned([trip_line(trip_line(r.net, 3), 4) EXCEPT
                                !.load_p_mw = Scale(@, 100)])

\* chaos.SCENARIOS: the registry's keys and the function of each.
SCENARIOS ==
    {"hurricane_ida", "heatwave_2023", "ev_fleet_spike", "sandy_2012", "blackout_2003"}

ScenarioFn(key, n) ==
    CASE key = "hurricane_ida"  -> event_hurricane_ida_flash_flood(n)
      [] key = "heatwave_2023"  -> event_heatwave_2023_voltage_collapse(n)
      [] key = "ev_fleet_spike" -> event_staten_island_ev_fleet_spike(n)
      [] key = "sandy_2012"     -> event_sandy_protection_miscoord(n)
      [] key = "blackout_2003"  -> event_2003_blackout_cascade(n)

cyber_attack_load_spike(n, multiplier) ==
    [n EXCEPT !.load_p_mw = Scale(@, 10 * multiplier)]

-----------------------------------------------------------------------------
(* controller.py: GridController *)

\* uuid.uuid4(): a value never returned before.
uuid4 == uuid_count + 1

\* The history record of one call: the operation, its inputs (fn, arg), the
\* exception it raised, whether an experiment was active when it began, for a
\* snapshot() its path, its response and the number of solves it ran, for a
\* reset() the call before it, for an experiment_context() the context it
\* returned, and for a request answered by api.py its response.
NoCall == [ op |-> "init", fn |-> "None", arg |-> 0 ]
NoResult == [ op |-> "init", fn |-> "None", arg |-> 0, raised |-> "None",
              had_active |-> FALSE, physics_failed |-> FALSE, contained |-> FALSE,
              snap |-> <<>>, prev |-> NoCall, ctx |-> <<>>, solves |-> 0,
              response |-> <<>> ]

\* The threads of the server, and a thread that is in no operation: it has
\* no inputs, no solver result and no network it solved.
Threads == 1..NumThreads
NoMutation == [fn |-> "None", arg |-> 0, mutation_source |-> "None"]
Idle == [ pc |-> "idle", phase |-> "None", m |-> NoMutation, scenario |-> "None",
          execution_mode |-> "None", max_load_loss_pct |-> 0,
          snap |-> <<>>, solved |-> <<>>, failed |-> FALSE, status_request |-> FALSE ]

\* GridController.__init__
Init ==
    /\ net = create_grid
    /\ active_experiment = <<>>
    /\ simulation_id = 1
    /\ uuid_count = 1
    /\ last_mutation_source = "init"
    /\ lineages = {1}
    /\ last = NoResult
    /\ pending = <<>>
    /\ READ_ONLY_MODE = FALSE
    /\ injected_since_begin = FALSE
    /\ lock = 0
    /\ threads = [t \in Threads |-> Idle]

\* exp and exp.status == "ACTIVE"
IsActive(exp) == Len(exp) = 1 /\ exp[1].status = "ACTIVE"

\* reset() that keeps the lineage id of the network it replaces.
reset_keeps_lineage ==
    /\ uuid_count < MaxUuid
    /\ net' = create_grid
    /\ active_experiment' = <<>>
    /\ last_mutation_source' = "reset"
    /\ last' = [NoResult EXCEPT !.op = "reset",
                                !.had_active = IsActive(active_experiment),
                                !.prev = [op |-> last.op, fn |-> last.fn,
                                          arg |-> last.arg]]
    /\ UNCHANGED <<simulation_id, uuid_count, lineages>>

\* reset() that clears the experiment but keeps the network object.
reset_keeps_net ==
    /\ uuid_count < MaxUuid
    /\ simulation_id' = uuid4
    /\ uuid_count' = uuid_count + 1
    /\ lineages' = lineages \cup {uuid4}
    /\ active_experiment' = <<>>
    /\ last_mutation_source' = "reset"
    /\ last' = [NoResult EXCEPT !.op = "reset",
                                !.had_active = IsActive(active_experiment),
                                !.prev = [op |-> last.op, fn |-> last.fn,
                                          arg |-> last.arg]]
    /\ UNCHANGED net

\* GridController.reset
reset ==
    /\ uuid_count < MaxUuid
    /\ net' = create_grid
    /\ simulation_id' = uuid4
    /\ uuid_count' = uuid_count + 1
    /\ lineages' = lineages \cup {uuid4}
    /\ active_experiment' = <<>>
    /\ last_mutation_source' = "reset"
    /\ last' = [NoResult EXCEPT !.op = "reset",
                                !.had_active = IsActive(active_experiment),
                                !.prev = [op |-> last.op, fn |-> last.fn,
                                          arg |-> last.arg]]

\* An Experiment constructed in phase "chaos" instead of "baseline".
Experiment_in_chaos(experiment_id, scenario, execution_mode, max_load_loss_pct) ==
    [ experiment_id          |-> experiment_id,
      scenario               |-> scenario,
      phase                  |-> "chaos",
      status                 |-> "ACTIVE",
      execution_mode         |-> execution_mode,
      max_load_loss_pct      |-> max_load_loss_pct,
      blast_radius_triggered |-> FALSE,
      blast_radius_reason    |-> "None",
      containment_action     |-> "None" ]

\* Experiment(...): the dataclass as begin_experiment constructs it (notes and
\* started_at_ns carry no behaviour and are left out).  max_load_loss_pct
\* and every load-loss fraction are in units of 1/10000.
Experiment(experiment_id, scenario, execution_mode, max_load_loss_pct) ==
    [ experiment_id          |-> experiment_id,
      scenario               |-> scenario,
      phase                  |-> "baseline",
      status                 |-> "ACTIVE",
      execution_mode         |-> execution_mode,
      max_load_loss_pct      |-> max_load_loss_pct,
      blast_radius_triggered |-> FALSE,
      blast_radius_reason    |-> "None",
      containment_action     |-> "None" ]

\* Inputs the operations are called with.
ScenarioInputs == {"hurricane_ida"}
InjectInputs == {"hurricane_ida", "heatwave_2023"}
ModeInputs == {"sandbox", "guardrailed", "turbo"}
MaxLossInputs == {0, 5000}
PhaseInputs == {"baseline", "chaos", "warmup"}
LineInputs == {3, MaxLine + 1}
MultiplierInputs == {0, 2}

\* begin_experiment tagging the mutation source before it validates the call.
begin_experiment_call_tags_first(scenario, execution_mode, max_load_loss_pct) ==
    LET call == [NoResult EXCEPT !.op = "begin_experiment", !.fn = execution_mode,
                                 !.had_active = IsActive(active_experiment)]
    IN
    IF IsActive(active_experiment)
    THEN /\ last' = [call EXCEPT !.raised = "RuntimeError"]
         /\ last_mutation_source' = "scenario"
         /\ UNCHANGED <<net, active_experiment, simulation_id, uuid_count, lineages>>
    ELSE IF execution_mode \notin {"sandbox", "guardrailed"}
    THEN /\ last' = [call EXCEPT !.raised = "ValueError"]
         /\ last_mutation_source' = "scenario"
         /\ UNCHANGED <<net, active_experiment, simulation_id, uuid_count, lineages>>
    ELSE /\ uuid_count < MaxUuid
         /\ active_experiment' =
                <<Experiment(uuid4, scenario, execution_mode, max_load_loss_pct)>>
         /\ uuid_count' = uuid_count + 1
         /\ last_mutation_source' = "scenario"
         /\ last' = call
         /\ UNCHANGED <<net, simulation_id, lineages>>

\* GridController.begin_experiment(scenario, notes, execution_mode, max_load_loss_pct)
begin_experiment_call(scenario, execution_mode, max_load_loss_pct) ==
    LET call == [NoResult EXCEPT !.op = "begin_experiment", !.fn = execution_mode,
                                 !.had_active = IsActive(active_experiment)]
    IN
    IF IsActive(active_experiment)
    THEN /\ last' = [call EXCEPT !.raised = "RuntimeError"]
         /\ UNCHANGED <<net, active_experiment, simulation_id,
                        last_mutation_source, uuid_count, lineages>>
    ELSE IF execution_mode \notin {"sandbox", "guardrailed"}
    THEN /\ last' = [call EXCEPT !.raised = "ValueError"]
         /\ UNCHANGED <<net, active_experiment, simulation_id,
                        last_mutation_source, uuid_count, lineages>>
    ELSE /\ uuid_count < MaxUuid
         /\ active_experiment' =
                <<Experiment(uuid4, scenario, execution_mode, max_load_loss_pct)>>
         /\ uuid_count' = uuid_count + 1
         /\ last_mutation_source' = "scenario"
         /\ last' = call
         /\ UNCHANGED <<net, simulation_id, lineages>>

\* begin_experiment with the "already active" check left out.
begin_experiment_no_conflict_check ==
    \E scenario \in ScenarioInputs, execution_mode \in ModeInputs,
       max_load_loss_pct \in MaxLossInputs :
        LET call == [NoResult EXCEPT !.op = "begin_experiment", !.fn = execution_mode,
                                     !.had_active = IsActive(active_experiment)]
        IN
        IF execution_mode \notin {"sandbox", "guardrailed"}
        THEN /\ last' = [call EXCEPT !.raised = "ValueError"]
             /\ UNCHANGED <<net, active_experiment, simulation_id,
                            last_mutation_source, uuid_count, lineages>>
        ELSE /\ uuid_count < MaxUuid
             /\ active_experiment' =
                    <<Experiment(uuid4, scenario, execution_mode, max_load_loss_pct)>>
             /\ uuid_count' = uuid_count + 1
             /\ last_mutation_source' = "scenario"
             /\ last' = call
             /\ UNCHANGED <<net, simulation_id, lineages>>

\* GridController.begin_experiment, called with any of the inputs.
begin_experiment ==
    \E scenario \in ScenarioInputs, execution_mode \in ModeInputs,
       max_load_loss_pct \in MaxLossInputs :
        begin_experiment_call(scenario, execution_mode, max_load_loss_pct)

\* set_phase writing the phase of an ended experiment too.
set_phase_call_any_status(phase) ==
    /\ active_experiment' =
           IF Len(active_experiment) = 1
           THEN [active_experiment EXCEPT ![1].phase = phase]
           ELSE active_experiment
    /\ last' = [NoResult EXCEPT !.op = "set_phase", !.fn = phase,
                                !.had_active = IsActive(active_experiment)]
    /\ UNCHANGED <<net, simulation_id, last_mutation_source, uuid_count, lineages>>

\* GridController.set_phase(phase)
set_phase_call(phase) ==
    /\ active_experiment' =
           IF IsActive(active_experiment)
           THEN [active_experiment EXCEPT ![1].phase = phase]
           ELSE active_experiment
    /\ last' = [NoResult EXCEPT !.op = "set_phase", !.fn = phase,
                                !.had_active = IsActive(active_experiment)]
    /\ UNCHANGED <<net, simulation_id, last_mutation_source, uuid_count, lineages>>

\* GridController.set_phase, called with any of the inputs.
set_phase ==
    \E phase \in PhaseInputs : set_phase_call(phase)

\* end_experiment clearing the guardrail state of the record it ends.
end_experiment_clears_flags ==
    /\ active_experiment' =
           IF Len(active_experiment) = 1
           THEN [active_experiment EXCEPT ![1].status = "ENDED", ![1].phase = "recovery",
                                          ![1].blast_radius_triggered = FALSE,
                                          ![1].containment_action = "None"]
           ELSE active_experiment
    /\ last_mutation_source' = "end_experiment"
    /\ last' = [NoResult EXCEPT !.op = "end_experiment",
                                !.had_active = IsActive(active_experiment)]
    /\ UNCHANGED <<net, simulation_id, uuid_count, lineages>>

\* end_experiment restoring the baseline network as well.
end_experiment_restores_net ==
    /\ active_experiment' =
           IF Len(active_experiment) = 1
           THEN [active_experiment EXCEPT ![1].status = "ENDED", ![1].phase = "recovery"]
           ELSE active_experiment
    /\ last_mutation_source' = "end_experiment"
    /\ net' = create_grid
    /\ last' = [NoResult EXCEPT !.op = "end_experiment",
                                !.had_active = IsActive(active_experiment)]
    /\ UNCHANGED <<simulation_id, uuid_count, lineages>>

\* GridController.end_experiment
end_experiment ==
    /\ active_experiment' =
           IF Len(active_experiment) = 1
           THEN [active_experiment EXCEPT ![1].status = "ENDED", ![1].phase = "recovery"]
           ELSE active_experiment
    /\ last_mutation_source' = "end_experiment"
    /\ last' = [NoResult EXCEPT !.op = "end_experiment",
                                !.had_active = IsActive(active_experiment)]
    /\ UNCHANGED <<net, simulation_id, uuid_count, lineages>>

\* The calls api.py makes to mutate: fn, its argument, and mutation_source.
MutationInputs ==
    { [fn |-> "trip_line", arg |-> l, mutation_source |-> "manual"] : l \in LineInputs }
    \cup { [fn |-> "cyber_attack_load_spike", arg |-> m, mutation_source |-> "manual"] :
           m \in MultiplierInputs }
    \cup { [fn |-> k, arg |-> 0, mutation_source |-> "scenario"] : k \in InjectInputs }

\* fn(self.net, *args)
Apply(m, n) ==
    CASE m.fn = "trip_line" -> Returned(trip_line(n, m.arg))
      [] m.fn = "cyber_attack_load_spike" -> Returned(cyber_attack_load_spike(n, m.arg))
      [] OTHER -> ScenarioFn(m.fn, n)

Abs(x) == IF x < 0 THEN -x ELSE x

\* mutate applying fn without tagging last_mutation_source.
mutate_keeps_source ==
    \E m \in MutationInputs :
        LET r == Apply(m, net) IN
        /\ Abs(r.net.load_p_mw) <= MaxLoad
        /\ net' = r.net
        /\ last' = [NoResult EXCEPT !.op = "mutate", !.fn = m.fn, !.arg = m.arg,
                                    !.raised = r.raised,
                                    !.had_active = IsActive(active_experiment)]
        /\ UNCHANGED <<active_experiment, simulation_id, last_mutation_source,
                       uuid_count, lineages>>

\* GridController.mutate(fn, *args, mutation_source)
mutate_call(m) ==
    LET r == Apply(m, net) IN
    /\ Abs(r.net.load_p_mw) <= MaxLoad
    /\ last_mutation_source' = m.mutation_source
    /\ net' = r.net
    /\ last' = [NoResult EXCEPT !.op = "mutate", !.fn = m.fn, !.arg = m.arg,
                                !.raised = r.raised,
                                !.had_active = IsActive(active_experiment)]
    /\ UNCHANGED <<active_experiment, simulation_id, uuid_count, lineages>>

\* GridController.mutate, called with any of the inputs.
mutate ==
    \E m \in MutationInputs : mutate_call(m)

\* The controller's fields as one value, for the helpers that snapshot() calls
\* while it holds the lock.
Self ==
    [ net                  |-> net,
      active_experiment    |-> active_experiment,
      simulation_id        |-> simulation_id,
      last_mutation_source |-> last_mutation_source,
      uuid_count           |-> uuid_count ]

\* GridController._build_context
build_context(exp, c) ==
    IF Len(exp) = 0
    THEN [ experiment_id   |-> 0,   \* "none"
           scenario        |-> "none",
           phase           |-> "baseline",
           simulation_id   |-> c.simulation_id,
           mutation_source |-> c.last_mutation_source ]
    ELSE [ experiment_id   |-> exp[1].experiment_id,
           scenario        |-> exp[1].scenario,
           phase           |-> exp[1].phase,
           simulation_id   |-> c.simulation_id,
           mutation_source |-> c.last_mutation_source ]

\* _rollback that restores the network under the old simulation_id.
rollback_keeps_lineage(c) ==
    [c EXCEPT !.net = create_grid,
              !.last_mutation_source = "rollback"]

\* _rollback that regenerates the lineage but keeps the faulted network.
rollback_keeps_net(c) ==
    [c EXCEPT !.simulation_id = c.uuid_count + 1,
              !.uuid_count = @ + 1,
              !.last_mutation_source = "rollback"]

\* GridController._rollback
rollback(c) ==
    [c EXCEPT !.net = create_grid,
              !.simulation_id = c.uuid_count + 1,
              !.uuid_count = @ + 1,
              !.last_mutation_source = "rollback"]

\* _trigger_containment that ends the experiment without moving it to the
\* recovery phase.
trigger_containment_keeps_phase(c, action) ==
    rollback([c EXCEPT !.active_experiment[1].containment_action = action,
                       !.active_experiment[1].status = "ENDED"])

\* _trigger_containment that rolls back without ending the experiment.
trigger_containment_keeps_active(c, action) ==
    rollback([c EXCEPT !.active_experiment[1].containment_action = action])

\* GridController._trigger_containment: exp is self.active_experiment's record.
trigger_containment(c, action) ==
    rollback([c EXCEPT !.active_experiment[1].containment_action = action,
                       !.active_experiment[1].status = "ENDED",
                       !.active_experiment[1].phase = "recovery"])

\* _build_response filling in the no-experiment defaults whatever exp is.
build_response_defaults(converged, error, ctx, exp, estimated_load_loss_pct) ==
    [ converged               |-> converged,
      error                   |-> error,
      metrics                 |-> <<>>,
      context                 |-> ctx,
      execution_mode          |-> IF Len(exp) = 1 THEN exp[1].execution_mode ELSE "sandbox",
      containment_action      |-> IF Len(exp) = 1 THEN exp[1].containment_action ELSE "None",
      estimated_load_loss_pct |-> estimated_load_loss_pct,
      blast_radius_triggered  |-> FALSE,
      blast_radius_reason     |-> "None",
      experiment_status       |-> "None",
      experiment_phase        |-> "None" ]

\* GridController._build_response
build_response(converged, error, ctx, exp, estimated_load_loss_pct) ==
    [ converged               |-> converged,
      error                   |-> error,
      metrics                 |-> <<>>,
      context                 |-> ctx,
      execution_mode          |-> IF Len(exp) = 1 THEN exp[1].execution_mode ELSE "sandbox",
      containment_action      |-> IF Len(exp) = 1 THEN exp[1].containment_action ELSE "None",
      estimated_load_loss_pct |-> estimated_load_loss_pct,
      blast_radius_triggered  |-> IF Len(exp) = 1 THEN exp[1].blast_radius_triggered ELSE FALSE,
      blast_radius_reason     |-> IF Len(exp) = 1 THEN exp[1].blast_radius_reason ELSE "None",
      experiment_status       |-> IF Len(exp) = 1 THEN exp[1].status ELSE "None",
      experiment_phase        |-> IF Len(exp) = 1 THEN exp[1].phase ELSE "None" ]

\* Fractions are carried in units of 1/FractionUnit: round(est_loss_pct, 4).
FractionUnit == 10000

Max(a, b) == IF a >= b THEN a ELSE b

\* est_loss_pct without the max(0.0, ...) clamp.
est_loss_pct_unclamped(total_load, generation) ==
    IF total_load > 0
    THEN [ num |-> total_load - generation, den |-> total_load ]
    ELSE [ num |-> 0, den |-> 1 ]

\* est_loss_pct as the exact fraction num/den (controller.py lines 304-307).
est_loss_pct(total_load, generation) ==
    IF total_load > 0
    THEN [ num |-> Max(0, total_load - generation), den |-> total_load ]
    ELSE [ num |-> 0, den |-> 1 ]

\* round(x, 4) of x = f.num/f.den, in units of 1/FractionUnit (ties to even).
round4(f) ==
    LET n == FractionUnit * f.num
        q == n \div f.den
        r == n % f.den
    IN  IF 2 * r < f.den THEN q
        ELSE IF 2 * r > f.den THEN q + 1
        ELSE IF q % 2 = 0 THEN q ELSE q + 1

\* est_loss_pct > max_loss: the boundary excluded.
AtLeast_strict(f, max_loss) == FractionUnit * f.num > max_loss * f.den

\* est_loss_pct >= max_loss
AtLeast(f, max_loss) == FractionUnit * f.num >= max_loss * f.den

\* The guard without its execution_mode test.
Guardrailed_any_mode(exp) == IsActive(exp)

\* The guard without its status test.
Guardrailed_any_status(exp) == Len(exp) = 1 /\ exp[1].execution_mode = "guardrailed"

\* exp and exp.status == "ACTIVE" and execution_mode == "guardrailed"
Guardrailed(exp) == IsActive(exp) /\ exp[1].execution_mode = "guardrailed"

\* CASE A of snapshot() without line 254: after a containment the response
\* carries the context that was built before the rollback.
snapshot_failure_stale_context(c, probe) ==
    LET exp == c.active_experiment
        ctx == build_context(exp, c)
        err_msg == "Powerflow failed (Blackout)"
    IN
    IF Guardrailed(exp)
    THEN LET marked == [c EXCEPT !.active_experiment[1].blast_radius_triggered = TRUE,
                                 !.active_experiment[1].blast_radius_reason =
                                     "Power flow did not converge"]
             after == trigger_containment(marked, "AUTO_ABORT_ROLLBACK")
             exp_after == after.active_experiment
             ctx_after == ctx
         IN  IF Len(probe) = 1
             THEN [ self |-> after, contained |-> TRUE, solves |-> 2,
                    snap |-> [ converged               |-> probe[1].converged,
                               error                   |-> "None",
                               metrics                 |-> probe,
                               context                 |-> ctx_after,
                               execution_mode          |-> exp[1].execution_mode,
                               estimated_load_loss_pct |-> <<>>,
                               containment_action      |-> exp_after[1].containment_action,
                               blast_radius_triggered  |-> exp_after[1].blast_radius_triggered,
                               blast_radius_reason     |-> exp_after[1].blast_radius_reason,
                               experiment_status       |-> exp_after[1].status,
                               experiment_phase        |-> exp_after[1].phase ] ]
             ELSE [ self |-> after, contained |-> TRUE, solves |-> 2,
                    snap |-> build_response(FALSE, err_msg, ctx_after, exp_after, <<>>) ]
    ELSE [ self |-> c, contained |-> FALSE, solves |-> 1,
           snap |-> build_response(FALSE, err_msg, ctx, exp, <<>>) ]

\* CASE A of snapshot(): the solve failed (controller.py lines 238-285).
snapshot_failure(c, probe) ==
    LET exp == c.active_experiment
        ctx == build_context(exp, c)
        err_msg == "Powerflow failed (Blackout)"
    IN
    IF Guardrailed(exp)
    THEN LET marked == [c EXCEPT !.active_experiment[1].blast_radius_triggered = TRUE,
                                 !.active_experiment[1].blast_radius_reason =
                                     "Power flow did not converge"]
             after == trigger_containment(marked, "AUTO_ABORT_ROLLBACK")
             exp_after == after.active_experiment
             ctx_after == build_context(exp_after, after)
         IN  IF Len(probe) = 1
             THEN [ self |-> after, contained |-> TRUE, solves |-> 2,
                    snap |-> [ converged               |-> probe[1].converged,
                               error                   |-> "None",
                               metrics                 |-> probe,
                               context                 |-> ctx_after,
                               execution_mode          |-> exp[1].execution_mode,
                               estimated_load_loss_pct |-> <<>>,
                               containment_action      |-> exp_after[1].containment_action,
                               blast_radius_triggered  |-> exp_after[1].blast_radius_triggered,
                               blast_radius_reason     |-> exp_after[1].blast_radius_reason,
                               experiment_status       |-> exp_after[1].status,
                               experiment_phase        |-> exp_after[1].phase ] ]
             ELSE [ self |-> after, contained |-> TRUE, solves |-> 2,
                    snap |-> build_response(FALSE, err_msg, ctx_after, exp_after, <<>>) ]
    ELSE [ self |-> c, contained |-> FALSE, solves |-> 1,
           snap |-> build_response(FALSE, err_msg, ctx, exp, <<>>) ]

\* CASE B of snapshot() without line 321: after a containment the response
\* keeps the context that was built before the rollback.
snapshot_success_stale_context(c, snap) ==
    LET exp == c.active_experiment
        ctx == build_context(exp, c)
        max_loss == IF Len(exp) = 1 THEN exp[1].max_load_loss_pct ELSE 2000
        est == est_loss_pct(snap[1].total_load_mw, snap[1].generation_mw)
        contain == Guardrailed(exp) /\ AtLeast(est, max_loss)
        marked == [c EXCEPT !.active_experiment[1].blast_radius_triggered = TRUE,
                            !.active_experiment[1].blast_radius_reason =
                                "Blast radius exceeded"]
        after == IF contain THEN trigger_containment(marked, "AUTO_ABORT_ROLLBACK") ELSE c
        exp_after == after.active_experiment
    IN
    [ self |-> after, contained |-> contain, solves |-> 1,
      snap |-> [ converged               |-> snap[1].converged,
                 error                   |-> "None",
                 metrics                 |-> snap,
                 context                 |-> ctx,
                 execution_mode          |-> IF Len(exp) = 1 THEN exp[1].execution_mode
                                             ELSE "sandbox",
                 estimated_load_loss_pct |-> IF Guardrailed(exp) THEN <<round4(est)>>
                                             ELSE <<>>,
                 containment_action      |-> IF Len(exp) = 1
                                             THEN exp_after[1].containment_action
                                             ELSE "None",
                 blast_radius_triggered  |-> IF Len(exp) = 1
                                             THEN exp_after[1].blast_radius_triggered
                                             ELSE FALSE,
                 blast_radius_reason     |-> IF Len(exp) = 1
                                             THEN exp_after[1].blast_radius_reason
                                             ELSE "None",
                 experiment_status       |-> IF Len(exp) = 1 THEN exp_after[1].status
                                             ELSE "None",
                 experiment_phase        |-> IF Len(exp) = 1 THEN exp_after[1].phase
                                             ELSE "None" ] ]

\* CASE B of snapshot(): the solve converged (controller.py lines 290-335).
snapshot_success(c, snap) ==
    LET exp == c.active_experiment
        ctx == build_context(exp, c)
        max_loss == IF Len(exp) = 1 THEN exp[1].max_load_loss_pct ELSE 2000
        est == est_loss_pct(snap[1].total_load_mw, snap[1].generation_mw)
        contain == Guardrailed(exp) /\ AtLeast(est, max_loss)
        marked == [c EXCEPT !.active_experiment[1].blast_radius_triggered = TRUE,
                            !.active_experiment[1].blast_radius_reason =
                                "Blast radius exceeded"]
        after == IF contain THEN trigger_containment(marked, "AUTO_ABORT_ROLLBACK") ELSE c
        exp_after == after.active_experiment
    IN
    [ self |-> after, contained |-> contain, solves |-> 1,
      snap |-> [ converged               |-> snap[1].converged,
                 error                   |-> "None",
                 metrics                 |-> snap,
                 context                 |-> IF contain THEN build_context(exp_after, after)
                                             ELSE ctx,
                 execution_mode          |-> IF Len(exp) = 1 THEN exp[1].execution_mode
                                             ELSE "sandbox",
                 estimated_load_loss_pct |-> IF Guardrailed(exp) THEN <<round4(est)>>
                                             ELSE <<>>,
                 containment_action      |-> IF Len(exp) = 1
                                             THEN exp_after[1].containment_action
                                             ELSE "None",
                 blast_radius_triggered  |-> IF Len(exp) = 1
                                             THEN exp_after[1].blast_radius_triggered
                                             ELSE FALSE,
                 blast_radius_reason     |-> IF Len(exp) = 1
                                             THEN exp_after[1].blast_radius_reason
                                             ELSE "None",
                 experiment_status       |-> IF Len(exp) = 1 THEN exp_after[1].status
                                             ELSE "None",
                 experiment_phase        |-> IF Len(exp) = 1 THEN exp_after[1].phase
                                             ELSE "None" ] ]

\* get_grid_status without the "not converged" branch: a snapshot that has
\* not converged is classified by voltage like any other.
StatusResponse_without_blackout(snap, health) ==
    [ status                  |-> IF snap.converged THEN health ELSE "CRITICAL",
      message                 |-> "None",
      context                 |-> snap.context,
      execution_mode          |-> snap.execution_mode,
      estimated_load_loss_pct |-> snap.estimated_load_loss_pct,
      blast_radius_triggered  |-> snap.blast_radius_triggered,
      blast_radius_reason     |-> snap.blast_radius_reason,
      containment_action      |-> <<>> ]

\* The response of GET /status built from the snapshot; health is "BLACKOUT"
\* when the snapshot has not converged and _health_from_voltage of its
\* min_voltage_pu when it has.  The field containment_action is in the
\* blackout response only.
StatusResponse(snap, health) ==
    IF ~snap.converged
    THEN [ status                  |-> health,
           message                 |-> snap.error,
           context                 |-> snap.context,
           execution_mode          |-> snap.execution_mode,
           estimated_load_loss_pct |-> snap.estimated_load_loss_pct,
           blast_radius_triggered  |-> snap.blast_radius_triggered,
           blast_radius_reason     |-> snap.blast_radius_reason,
           containment_action      |-> <<snap.containment_action>> ]
    ELSE [ status                  |-> health,
           message                 |-> "None",
           context                 |-> snap.context,
           execution_mode          |-> snap.execution_mode,
           estimated_load_loss_pct |-> snap.estimated_load_loss_pct,
           blast_radius_triggered  |-> snap.blast_radius_triggered,
           blast_radius_reason     |-> snap.blast_radius_reason,
           containment_action      |-> <<>> ]

\* status_answer with a log_grid_state that lets the sink's failure out: the
\* request is answered with an error and no payload.
status_answer_sink_raises(l, sink, health) ==
    IF sink = "written"
    THEN [l EXCEPT !.op = "get_grid_status", !.fn = sink,
                   !.response = <<StatusResponse(l.snap[1], health)>>]
    ELSE [l EXCEPT !.op = "get_grid_status", !.fn = sink, !.raised = "HTTP500"]

\* What get_grid_status makes of the snapshot that call l returned, for one
\* behaviour of the sink and one voltage health.
status_answer(l, sink, health) ==
    [l EXCEPT !.op = "get_grid_status", !.fn = sink,
              !.response = <<StatusResponse(l.snap[1], health)>>]

\* GridController.snapshot, given what the solver may return for self.net and
\* for the rolled-back network that is probed after a divergence containment.
\* The probe is solved after a failed solve only.  Called by get_grid_status,
\* the result is the request's answer for each behaviour of the sink in sinks
\* and each voltage health in healths; called directly (no sinks), it is the
\* returned response.
snapshot_answered(snaps, probes, sinks, healths) ==
    \E snap \in snaps :
    \E probe \in IF Len(snap) = 0 THEN probes ELSE { <<>> } :
        LET physics_failed == Len(snap) = 0
            r == IF physics_failed THEN snapshot_failure(Self, probe)
                 ELSE snapshot_success(Self, snap)
        IN
        /\ r.self.uuid_count <= MaxUuid
        /\ net' = r.self.net
        /\ active_experiment' = r.self.active_experiment
        /\ simulation_id' = r.self.simulation_id
        /\ last_mutation_source' = r.self.last_mutation_source
        /\ uuid_count' = r.self.uuid_count
        /\ lineages' = lineages \cup {r.self.simulation_id}
        /\ LET l == [NoResult EXCEPT !.op = "snapshot",
                                     !.had_active = IsActive(active_experiment),
                                     !.physics_failed = physics_failed,
                                     !.contained = r.contained,
                                     !.solves = r.solves,
                                     !.snap = <<r.snap>>]
           IN  last' \in IF sinks = {} THEN {l}
                         ELSE { status_answer(l, sink, health) :
                                    sink \in sinks,
                                    health \in IF r.snap.converged THEN healths
                                               ELSE {"BLACKOUT"} }

\* GridController.snapshot called directly: the response is the result.
snapshot_call(snaps, probes) ==
    snapshot_answered(snaps, probes, {}, {})

\* GridController.snapshot: one solve of self.net, and after a divergence
\* containment one probe of the rolled-back network.
snapshot ==
    snapshot_call(run_simulation(net), run_simulation(rollback(Self).net))

\* experiment_context() that tags the controller as the mutators do.
experiment_context_tagging ==
    /\ last' = [NoResult EXCEPT !.op = "experiment_context",
                                !.had_active = IsActive(active_experiment),
                                !.ctx = <<build_context(active_experiment, Self)>>]
    /\ last_mutation_source' = "manual"
    /\ UNCHANGED <<net, active_experiment, simulation_id, uuid_count, lineages>>

\* GridController.experiment_context
experiment_context ==
    /\ last' = [NoResult EXCEPT !.op = "experiment_context",
                                !.had_active = IsActive(active_experiment),
                                !.ctx = <<build_context(active_experiment, Self)>>]
    /\ UNCHANGED <<net, active_experiment, simulation_id, last_mutation_source,
                   uuid_count, lineages>>

\* The controller's operations, each called directly and run to its end
\* under the lock.
Next ==
    \/ reset /\ UNCHANGED <<api_state, lock_state>>
    \/ begin_experiment /\ UNCHANGED <<api_state, lock_state>>
    \/ set_phase /\ UNCHANGED <<api_state, lock_state>>
    \/ end_experiment /\ UNCHANGED <<api_state, lock_state>>
    \/ mutate /\ UNCHANGED <<api_state, lock_state>>
    \/ snapshot /\ UNCHANGED <<api_state, lock_state>>
    \/ experiment_context /\ UNCHANGED <<api_state, lock_state>>

Spec == Init /\ [][Next]_vars

-----------------------------------------------------------------------------
(* The controller with a solver that may fail on any network *)

\* run_simulation when pp.runpp may raise, or leave no results, for any
\* network, the baseline included (simulation.py lines 21-34).
run_simulation_unreliable(n) ==
    { <<>> } \cup run_simulation(n)

\* GridController.snapshot over the unreliable solver.
snapshot_unreliable ==
    snapshot_call(run_simulation_unreliable(net),
                  run_simulation_unreliable(rollback(Self).net))

UnreliableNext ==
    \/ reset /\ UNCHANGED <<api_state, lock_state>>
    \/ begin_experiment /\ UNCHANGED <<api_state, lock_state>>
    \/ set_phase /\ UNCHANGED <<api_state, lock_state>>
    \/ end_experiment /\ UNCHANGED <<api_state, lock_state>>
    \/ mutate /\ UNCHANGED <<api_state, lock_state>>
    \/ snapshot_unreliable /\ UNCHANGED <<api_state, lock_state>>
    \/ experiment_context /\ UNCHANGED <<api_state, lock_state>>

UnreliableSolverSpec == Init /\ [][UnreliableNext]_vars

-----------------------------------------------------------------------------------------------------------------------------------------------------
(* api.py: the HTTP handlers.  A handler that calls the controller twice is *)
(* two steps; between them the calls of other requests may take effect.     *)

\* The process starts with READ_ONLY_MODE read from the environment.
ApiInit ==
    /\ net = create_grid
    /\ active_experiment = <<>>
    /\ simulation_id = 1
    /\ uuid_count = 1
    /\ last_mutation_source = "init"
    /\ lineages = {1}
    /\ last = NoResult
    /\ pending = <<>>
    /\ READ_ONLY_MODE \in BOOLEAN
    /\ injected_since_begin = FALSE
    /\ lock = 0
    /\ threads = [t \in Threads |-> Idle]

\* Scenario keys a request may name; the last one is not in SCENARIOS.
ScenarioKeyInputs == ScenarioInputs \cup {"flood_2050"}

\* What the telemetry sink may do with a point: write it, be unavailable
\* since start-up (client None), or raise on the write.
SinkOutcomes == {"written", "no_client", "write_failed"}

\* _health_from_voltage of the solver's minimum bus voltage.
HealthOutcomes == {"HEALTHY", "UNSTABLE", "CRITICAL"}

\* A request that has returned from a controller call and will make another.
NewRequest(handler, key) ==
    [ handler |-> handler, key |-> key, had_active |-> IsActive(active_experiment),
      phase |-> IF Len(active_experiment) = 1 THEN active_experiment[1].phase
                ELSE "None",
      snap |-> <<>>, overtaken |-> 0 ]

\* The requests in flight other than the i-th.
Others(i) == SubSeq(pending, 1, i - 1) \o SubSeq(pending, i + 1, Len(pending))

\* A controller call takes effect while the requests of p are in flight.
MayOvertake(p) == \A j \in DOMAIN p : p[j].overtaken < MaxOvertake
Overtaken(p) == [ j \in DOMAIN p |-> [p[j] EXCEPT !.overtaken = @ + 1] ]

\* The history of injections after a controller call made by a handler:
\* `applied` tells whether one has been applied since the installed
\* experiment began, and the history is about ACTIVE experiments only.
InjectedAfter(applied) ==
    injected_since_begin' = ( IsActive(active_experiment') /\ applied )

\* A request rejected by the handler itself, before any controller call.
Rejected(handler, key, status) ==
    /\ last' = [NoResult EXCEPT !.op = handler, !.fn = key, !.raised = status,
                                !.had_active = IsActive(active_experiment)]
    /\ UNCHANGED <<net, active_experiment, simulation_id, last_mutation_source,
                   uuid_count, lineages, pending, READ_ONLY_MODE,
                   injected_since_begin, lock_state>>

\* POST /experiments/start/{scenario_key}, up to the return of
\* controller.begin_experiment. An exception of begin_experiment is answered
\* with HTTP 409 and ends the request.
start_experiment ==
    \E scenario_key \in ScenarioKeyInputs, execution_mode \in ModeInputs,
       max_load_loss_pct \in MaxLossInputs :
        IF READ_ONLY_MODE
        THEN Rejected("start_experiment", scenario_key, "HTTP403")
        ELSE IF scenario_key \notin SCENARIOS
        THEN Rejected("start_experiment", scenario_key, "HTTP404")
        ELSE /\ MayOvertake(pending)
             /\ begin_experiment_call(scenario_key, execution_mode, max_load_loss_pct)
             /\ IF last'.raised = "None"
                THEN /\ Len(pending) < MaxPending
                     /\ pending' = Append(Overtaken(pending),
                                          NewRequest("start_experiment", scenario_key))
                ELSE pending' = Overtaken(pending)
             /\ InjectedAfter(injected_since_begin /\ last'.raised # "None")
             /\ UNCHANGED <<READ_ONLY_MODE, lock_state>>

\* The rest of a start request: controller.set_phase("baseline"), a second
\* acquisition of the controller's lock.
start_experiment_set_phase ==
    \E i \in 1..Len(pending) :
        /\ pending[i].handler = "start_experiment"
        /\ MayOvertake(Others(i))
        /\ set_phase_call("baseline")
        /\ pending' = Overtaken(Others(i))
        /\ InjectedAfter(injected_since_begin)
        /\ UNCHANGED <<READ_ONLY_MODE, lock_state>>

\* POST /experiments/end: controller.end_experiment(); the response then
\* reads controller.experiment_context(), which changes no state.
api_end_experiment ==
    IF READ_ONLY_MODE
    THEN Rejected("api_end_experiment", "None", "HTTP403")
    ELSE /\ MayOvertake(pending)
         /\ end_experiment
         /\ pending' = Overtaken(pending)
         /\ InjectedAfter(injected_since_begin)
         /\ UNCHANGED <<READ_ONLY_MODE, lock_state>>

\* GET /status: controller.snapshot(), then db.log_grid_state(...), whatever
\* the sink does with the point, and the response.  The handler makes one
\* controller call, and nothing after it reads or writes the controller.
get_grid_status_call(snaps, probes, sinks, healths) ==
    /\ MayOvertake(pending)
    /\ snapshot_answered(snaps, probes, sinks, healths)
    /\ pending' = Overtaken(pending)
    /\ InjectedAfter(injected_since_begin)
    /\ UNCHANGED <<READ_ONLY_MODE, lock_state>>

\* GET /status with a solver that may fail on any network, any behaviour of
\* the sink and any voltage.
get_grid_status ==
    get_grid_status_call(run_simulation_unreliable(net),
                         run_simulation_unreliable(rollback(Self).net),
                         SinkOutcomes, HealthOutcomes)

\* GET /status with a working sink and a solver that fails on unphysical
\* networks only.
get_grid_status_nominal ==
    get_grid_status_call(run_simulation(net), run_simulation(rollback(Self).net),
                         {"written"}, {"HEALTHY"})

\* POST /inject/scenario/{scenario_key}, up to the return of
\* controller.set_phase("chaos").
run_scenario ==
    \E scenario_key \in ScenarioKeyInputs :
        IF READ_ONLY_MODE
        THEN Rejected("run_scenario", scenario_key, "HTTP403")
        ELSE IF scenario_key \notin SCENARIOS
        THEN Rejected("run_scenario", scenario_key, "HTTP404")
        ELSE /\ MayOvertake(pending)
             /\ Len(pending) < MaxPending
             /\ set_phase_call("chaos")
             /\ pending' = Append(Overtaken(pending),
                                  NewRequest("run_scenario", scenario_key))
             /\ InjectedAfter(injected_since_begin)
             /\ UNCHANGED <<READ_ONLY_MODE, lock_state>>

\* The rest of an inject request: controller.mutate(spec.fn,
\* mutation_source="scenario"); an exception is answered with HTTP 500.
run_scenario_mutate ==
    \E i \in 1..Len(pending) :
        /\ pending[i].handler = "run_scenario"
        /\ MayOvertake(Others(i))
        /\ mutate_call([fn |-> pending[i].key, arg |-> 0, mutation_source |-> "scenario"])
        /\ pending' = Overtaken(Others(i))
        /\ InjectedAfter(injected_since_begin \/ last'.raised = "None")
        /\ UNCHANGED <<READ_ONLY_MODE, lock_state>>

\* POST /inject/line_trip/{line_id}
api_trip_line ==
    \E line_id \in LineInputs :
        IF READ_ONLY_MODE
        THEN Rejected("api_trip_line", "None", "HTTP403")
        ELSE /\ MayOvertake(pending)
             /\ mutate_call([fn |-> "trip_line", arg |-> line_id,
                             mutation_source |-> "manual"])
             /\ pending' = Overtaken(pending)
             /\ InjectedAfter(injected_since_begin)
             /\ UNCHANGED <<READ_ONLY_MODE, lock_state>>

\* load_spike without _require_writable().
load_spike_unguarded ==
    \E multiplier \in MultiplierInputs :
        /\ MayOvertake(pending)
        /\ mutate_call([fn |-> "cyber_attack_load_spike", arg |-> multiplier,
                        mutation_source |-> "manual"])
        /\ pending' = Overtaken(pending)
        /\ InjectedAfter(injected_since_begin)
        /\ UNCHANGED <<READ_ONLY_MODE, lock_state>>

\* POST /inject/load_spike/{multiplier}
load_spike ==
    \E multiplier \in MultiplierInputs :
        IF READ_ONLY_MODE
        THEN Rejected("load_spike", "None", "HTTP403")
        ELSE /\ MayOvertake(pending)
             /\ mutate_call([fn |-> "cyber_attack_load_spike", arg |-> multiplier,
                             mutation_source |-> "manual"])
             /\ pending' = Overtaken(pending)
             /\ InjectedAfter(injected_since_begin)
             /\ UNCHANGED <<READ_ONLY_MODE, lock_state>>

\* POST /reset: controller.reset(); the response then reads
\* controller.experiment_context(), which changes no state.
reset_grid ==
    IF READ_ONLY_MODE
    THEN Rejected("reset_grid", "None", "HTTP403")
    ELSE /\ MayOvertake(pending)
         /\ reset
         /\ pending' = Overtaken(pending)
         /\ InjectedAfter(injected_since_begin)
         /\ UNCHANGED <<READ_ONLY_MODE, lock_state>>

\* The controller as the HTTP API drives it.
ApiNext ==
    \/ start_experiment
    \/ start_experiment_set_phase
    \/ api_end_experiment
    \/ get_grid_status_nominal
    \/ run_scenario
    \/ run_scenario_mutate
    \/ api_trip_line
    \/ load_spike
    \/ reset_grid

ApiSpec == ApiInit /\ [][ApiNext]_vars

\* controller.mutate(spec.fn, mutation_source="scenario") for a known key.
inject_scenario ==
    \E k \in InjectInputs :
        mutate_call([fn |-> k, arg |-> 0, mutation_source |-> "scenario"])

\* Status requests of every outcome, between direct calls of the controller
\* that begin and end experiments, inject scenarios and reset.
StatusNext ==
    \/ get_grid_status
    \/ begin_experiment /\ UNCHANGED <<api_state, lock_state>>
    \/ end_experiment /\ UNCHANGED <<api_state, lock_state>>
    \/ inject_scenario /\ UNCHANGED <<api_state, lock_state>>
    \/ reset /\ UNCHANGED <<api_state, lock_state>>

StatusSpec == Init /\ [][StatusNext]_vars

-----------------------------------------------------------------------------
(* controller.py statement by statement: each thread takes self._lock at    *)
(* the `with` of the operation it calls, runs the statements of its body    *)
(* one step at a time, and releases the lock at the end of the block, also  *)
(* when the body raises.  A pc names the source line about to be executed.  *)

At(t, pc) == threads[t].pc = pc
Goto(t, pc) == threads' = [threads EXCEPT ![t].pc = pc]

\* What no statement of the controller touches.
outside_controller == <<last, pending, READ_ONLY_MODE, injected_since_begin>>

\* threading.Lock.acquire that does not wait for the lock to be free.
lock_acquire_nonblocking(t) == lock' = t

\* `with self._lock:` on entry: blocks until the lock is free.
lock_acquire(t) == lock = 0 /\ lock' = t

\* `with self._lock:` on exit, by return or by exception.
lock_release(t) == lock' = 0

\* The end of a `with self._lock:` block: the thread is out of the operation.
return(t) == lock_release(t) /\ threads' = [threads EXCEPT ![t] = Idle]

\* exp.<field> = value, on the record self.active_experiment refers to.
exp_assign(field, value) ==
    active_experiment' =
        IF Len(active_experiment) = 1
        THEN <<[active_experiment[1] EXCEPT ![field] = value]>>
        ELSE active_experiment

\* Inputs of the concurrent callers: a guardrailed experiment with a 50 %
\* threshold or an invalid mode, the chaos phase, one manual and one scenario
\* mutation.
ThreadModeInputs == {"guardrailed", "turbo"}
ThreadMaxLossInputs == {5000}
ThreadPhaseInputs == {"chaos"}
ThreadMutationInputs ==
    { [fn |-> "trip_line", arg |-> 3, mutation_source |-> "manual"],
      [fn |-> "hurricane_ida", arg |-> 0, mutation_source |-> "scenario"] }

\* A thread enters an operation: it acquires the lock and holds its inputs.
Enter(t, frame) ==
    /\ lock_acquire(t)
    /\ threads' = [threads EXCEPT ![t] = frame]
    /\ UNCHANGED <<net, active_experiment, simulation_id, last_mutation_source,
                   uuid_count, lineages, outside_controller>>

\* reset(), controller.py lines 60-64
reset_60(t) ==
    /\ At(t, "idle")
    /\ uuid_count < MaxUuid
    /\ Enter(t, [Idle EXCEPT !.pc = "reset_61"])

reset_61(t) ==
    /\ At(t, "reset_61")
    /\ net' = create_grid
    /\ Goto(t, "reset_62")
    /\ UNCHANGED <<active_experiment, simulation_id, last_mutation_source,
                   uuid_count, lineages, lock, outside_controller>>

reset_62(t) ==
    /\ At(t, "reset_62")
    /\ simulation_id' = uuid4
    /\ uuid_count' = uuid_count + 1
    /\ lineages' = lineages \cup {uuid4}
    /\ Goto(t, "reset_63")
    /\ UNCHANGED <<net, active_experiment, last_mutation_source, lock,
                   outside_controller>>

reset_63(t) ==
    /\ At(t, "reset_63")
    /\ active_experiment' = <<>>
    /\ Goto(t, "reset_64")
    /\ UNCHANGED <<net, simulation_id, last_mutation_source, uuid_count, lineages,
                   lock, outside_controller>>

reset_64(t) ==
    /\ At(t, "reset_64")
    /\ last_mutation_source' = "reset"
    /\ return(t)
    /\ UNCHANGED <<net, active_experiment, simulation_id, uuid_count, lineages,
                   outside_controller>>

\* begin_experiment(), lines 73-93
begin_experiment_73(t) ==
    \E scenario \in ScenarioInputs, execution_mode \in ThreadModeInputs,
       max_load_loss_pct \in ThreadMaxLossInputs :
        /\ At(t, "idle")
        /\ uuid_count < MaxUuid
        /\ Enter(t, [Idle EXCEPT !.pc = "begin_experiment_74", !.scenario = scenario,
                                 !.execution_mode = execution_mode,
                                 !.max_load_loss_pct = max_load_loss_pct])

\* Lines 74-80 with the lock taken by acquire() and released only on the
\* normal path: a raise leaves the operation with the lock still held.
begin_experiment_74_raise_keeps_lock(t) ==
    /\ At(t, "begin_experiment_74")
    /\ IF \/ IsActive(active_experiment)
          \/ threads[t].execution_mode \notin {"sandbox", "guardrailed"}
       THEN threads' = [threads EXCEPT ![t] = Idle] /\ UNCHANGED lock
       ELSE Goto(t, "begin_experiment_82") /\ UNCHANGED lock
    /\ UNCHANGED <<net, active_experiment, simulation_id, last_mutation_source,
                   uuid_count, lineages, outside_controller>>

\* Lines 74-80: the two checks; a raise leaves the block and releases the lock.
begin_experiment_74(t) ==
    /\ At(t, "begin_experiment_74")
    /\ IF \/ IsActive(active_experiment)
          \/ threads[t].execution_mode \notin {"sandbox", "guardrailed"}
       THEN return(t)
       ELSE Goto(t, "begin_experiment_82") /\ UNCHANGED lock
    /\ UNCHANGED <<net, active_experiment, simulation_id, last_mutation_source,
                   uuid_count, lineages, outside_controller>>

\* Lines 82-91
begin_experiment_82(t) ==
    /\ At(t, "begin_experiment_82")
    /\ active_experiment' = <<Experiment(uuid4, threads[t].scenario,
                                         threads[t].execution_mode,
                                         threads[t].max_load_loss_pct)>>
    /\ uuid_count' = uuid_count + 1
    /\ Goto(t, "begin_experiment_92")
    /\ UNCHANGED <<net, simulation_id, last_mutation_source, lineages, lock,
                   outside_controller>>

begin_experiment_92(t) ==
    /\ At(t, "begin_experiment_92")
    /\ last_mutation_source' = "scenario"
    /\ return(t)
    /\ UNCHANGED <<net, active_experiment, simulation_id, uuid_count, lineages,
                   outside_controller>>

\* set_phase(), lines 96-98
set_phase_96(t) ==
    \E phase \in ThreadPhaseInputs :
        /\ At(t, "idle")
        /\ Enter(t, [Idle EXCEPT !.pc = "set_phase_97", !.phase = phase])

set_phase_97(t) ==
    /\ At(t, "set_phase_97")
    /\ IF IsActive(active_experiment)
       THEN exp_assign("phase", threads[t].phase)
       ELSE UNCHANGED active_experiment
    /\ return(t)
    /\ UNCHANGED <<net, simulation_id, last_mutation_source, uuid_count, lineages,
                   outside_controller>>

\* end_experiment(), lines 101-105
end_experiment_101(t) ==
    /\ At(t, "idle")
    /\ Enter(t, [Idle EXCEPT !.pc = "end_experiment_102"])

end_experiment_102(t) ==
    /\ At(t, "end_experiment_102")
    /\ IF Len(active_experiment) = 1
       THEN exp_assign("status", "ENDED") /\ Goto(t, "end_experiment_104")
       ELSE UNCHANGED active_experiment /\ Goto(t, "end_experiment_105")
    /\ UNCHANGED <<net, simulation_id, last_mutation_source, uuid_count, lineages,
                   lock, outside_controller>>

end_experiment_104(t) ==
    /\ At(t, "end_experiment_104")
    /\ exp_assign("phase", "recovery")
    /\ Goto(t, "end_experiment_105")
    /\ UNCHANGED <<net, simulation_id, last_mutation_source, uuid_count, lineages,
                   lock, outside_controller>>

end_experiment_105(t) ==
    /\ At(t, "end_experiment_105")
    /\ last_mutation_source' = "end_experiment"
    /\ return(t)
    /\ UNCHANGED <<net, active_experiment, simulation_id, uuid_count, lineages,
                   outside_controller>>

\* mutate(), lines 114-116
mutate_114(t) ==
    \E m \in ThreadMutationInputs :
        /\ At(t, "idle")
        /\ Abs(Apply(m, net).net.load_p_mw) <= MaxLoad
        /\ Enter(t, [Idle EXCEPT !.pc = "mutate_115", !.m = m])

mutate_115(t) ==
    /\ At(t, "mutate_115")
    /\ last_mutation_source' = threads[t].m.mutation_source
    /\ Goto(t, "mutate_116")
    /\ UNCHANGED <<net, active_experiment, simulation_id, uuid_count, lineages,
                   lock, outside_controller>>

\* Line 116: fn returns or raises; either way the block is left.
mutate_116(t) ==
    /\ At(t, "mutate_116")
    /\ net' = Apply(threads[t].m, net).net
    /\ return(t)
    /\ UNCHANGED <<active_experiment, simulation_id, last_mutation_source,
                   uuid_count, lineages, outside_controller>>

\* experiment_context(), lines 342-343
experiment_context_342(t) ==
    /\ At(t, "idle")
    /\ Enter(t, [Idle EXCEPT !.pc = "experiment_context_343"])

experiment_context_343(t) ==
    /\ At(t, "experiment_context_343")
    /\ return(t)
    /\ UNCHANGED <<net, active_experiment, simulation_id, last_mutation_source,
                   uuid_count, lineages, outside_controller>>

\* snapshot() returning what it built while the thread of a status request
\* stays inside the `with` block until the point is logged.
snapshot_return_inside_lock(t) ==
    /\ IF threads[t].status_request THEN UNCHANGED lock ELSE lock_release(t)
    /\ threads' = [threads EXCEPT ![t] =
                      IF threads[t].status_request
                      THEN [Idle EXCEPT !.pc = "get_grid_status_log"]
                      ELSE Idle]

\* A return of snapshot(): the block is left; the thread of a status request
\* goes on to log the point (api.py), the thread of a direct call is done.
snapshot_return(t) ==
    /\ lock_release(t)
    /\ threads' = [threads EXCEPT ![t] =
                      IF threads[t].status_request
                      THEN [Idle EXCEPT !.pc = "get_grid_status_log"]
                      ELSE Idle]

\* snapshot(), line 220, called directly or by get_grid_status (api.py 126).
snapshot_220(t) ==
    \E status_request \in BOOLEAN :
        /\ At(t, "idle")
        /\ Guardrailed(active_experiment) => uuid_count < MaxUuid
        /\ Enter(t, [Idle EXCEPT !.pc = "snapshot_221",
                                 !.status_request = status_request])

\* Lines 221-236: exp, ctx, the solve of self.net and physics_failed.
snapshot_221(t) ==
    /\ At(t, "snapshot_221")
    /\ \E snap \in run_simulation_unreliable(net) :
          threads' = [threads EXCEPT ![t].snap = snap,
                                     ![t].solved = <<net>>,
                                     ![t].failed = (Len(snap) = 0),
                                     ![t].pc = IF Len(snap) = 0 THEN "snapshot_243"
                                               ELSE "snapshot_300"]
    /\ UNCHANGED <<net, active_experiment, simulation_id, last_mutation_source,
                   uuid_count, lineages, lock, outside_controller>>

\* Lines 243-248 and 279-285: the containment decision after a failed solve.
snapshot_243(t) ==
    /\ At(t, "snapshot_243")
    /\ IF Guardrailed(active_experiment)
       THEN /\ active_experiment' =
                  <<[active_experiment[1] EXCEPT
                        !.blast_radius_triggered = TRUE,
                        !.blast_radius_reason = "Power flow did not converge"]>>
            /\ Goto(t, "trigger_containment_159")
            /\ UNCHANGED lock
       ELSE /\ snapshot_return(t)
            /\ UNCHANGED active_experiment
    /\ UNCHANGED <<net, simulation_id, last_mutation_source, uuid_count, lineages,
                   outside_controller>>

\* Lines 300-316 and 324-335: the containment decision after a solve that
\* converged, taken on the loss of the solved snapshot.
snapshot_300(t) ==
    /\ At(t, "snapshot_300")
    /\ LET snap == threads[t].snap[1]
           est == est_loss_pct(snap.total_load_mw, snap.generation_mw)
       IN  IF /\ Guardrailed(active_experiment)
              /\ AtLeast(est, active_experiment[1].max_load_loss_pct)
           THEN /\ active_experiment' =
                      <<[active_experiment[1] EXCEPT
                            !.blast_radius_triggered = TRUE,
                            !.blast_radius_reason = "Blast radius exceeded"]>>
                /\ Goto(t, "trigger_containment_159")
                /\ UNCHANGED lock
           ELSE /\ snapshot_return(t)
                /\ UNCHANGED active_experiment
    /\ UNCHANGED <<net, simulation_id, last_mutation_source, uuid_count, lineages,
                   outside_controller>>

\* _trigger_containment(), lines 159-163, and _rollback(), lines 149-151:
\* called by snapshot() with the lock held, they take no lock themselves.
trigger_containment_159(t) ==
    /\ At(t, "trigger_containment_159")
    /\ exp_assign("containment_action", "AUTO_ABORT_ROLLBACK")
    /\ Goto(t, "trigger_containment_161")
    /\ UNCHANGED <<net, simulation_id, last_mutation_source, uuid_count, lineages,
                   lock, outside_controller>>

trigger_containment_161(t) ==
    /\ At(t, "trigger_containment_161")
    /\ exp_assign("status", "ENDED")
    /\ Goto(t, "trigger_containment_162")
    /\ UNCHANGED <<net, simulation_id, last_mutation_source, uuid_count, lineages,
                   lock, outside_controller>>

trigger_containment_162(t) ==
    /\ At(t, "trigger_containment_162")
    /\ exp_assign("phase", "recovery")
    /\ Goto(t, "rollback_149")
    /\ UNCHANGED <<net, simulation_id, last_mutation_source, uuid_count, lineages,
                   lock, outside_controller>>

rollback_149(t) ==
    /\ At(t, "rollback_149")
    /\ net' = create_grid
    /\ Goto(t, "rollback_150")
    /\ UNCHANGED <<active_experiment, simulation_id, last_mutation_source,
                   uuid_count, lineages, lock, outside_controller>>

rollback_150(t) ==
    /\ At(t, "rollback_150")
    /\ simulation_id' = uuid4
    /\ uuid_count' = uuid_count + 1
    /\ lineages' = lineages \cup {uuid4}
    /\ Goto(t, "rollback_151")
    /\ UNCHANGED <<net, active_experiment, last_mutation_source, lock,
                   outside_controller>>

\* Line 151, then back in snapshot(): the probe after a divergence
\* containment (254-276), the return after a threshold containment (320-335).
rollback_151(t) ==
    /\ At(t, "rollback_151")
    /\ last_mutation_source' = "rollback"
    /\ IF threads[t].failed
       THEN Goto(t, "snapshot_254") /\ UNCHANGED lock
       ELSE snapshot_return(t)
    /\ UNCHANGED <<net, active_experiment, simulation_id, uuid_count, lineages,
                   outside_controller>>

\* Lines 254-276: ctx_after, the probe of the rolled-back network, the return.
snapshot_254(t) ==
    /\ At(t, "snapshot_254")
    /\ snapshot_return(t)
    /\ UNCHANGED <<net, active_experiment, simulation_id, last_mutation_source,
                   uuid_count, lineages, outside_controller>>

\* api.py lines 129-186 of get_grid_status, after controller.snapshot() has
\* returned: db.log_grid_state, whatever the sink does, and the response.
get_grid_status_log(t) ==
    /\ At(t, "get_grid_status_log")
    /\ \E sink \in SinkOutcomes :
          threads' = [threads EXCEPT ![t] = Idle]
    /\ UNCHANGED <<net, active_experiment, simulation_id, last_mutation_source,
                   uuid_count, lineages, lock, outside_controller>>

\* The threads of the server running controller operations concurrently.
LockNext ==
    \E t \in Threads :
        \/ reset_60(t)
        \/ reset_61(t)
        \/ reset_62(t)
        \/ reset_63(t)
        \/ reset_64(t)
        \/ begin_experiment_73(t)
        \/ begin_experiment_74(t)
        \/ begin_experiment_82(t)
        \/ begin_experiment_92(t)
        \/ set_phase_96(t)
        \/ set_phase_97(t)
        \/ end_experiment_101(t)
        \/ end_experiment_102(t)
        \/ end_experiment_104(t)
        \/ end_experiment_105(t)
        \/ mutate_114(t)
        \/ mutate_115(t)
        \/ mutate_116(t)
        \/ experiment_context_342(t)
        \/ experiment_context_343(t)
        \/ snapshot_220(t)
        \/ snapshot_221(t)
        \/ snapshot_243(t)
        \/ snapshot_300(t)
        \/ trigger_containment_159(t)
        \/ trigger_containment_161(t)
        \/ trigger_containment_162(t)
        \/ rollback_149(t)
        \/ rollback_150(t)
        \/ rollback_151(t)
        \/ snapshot_254(t)
        \/ get_grid_status_log(t)

LockSpec == Init /\ [][LockNext]_vars

\* A step of thread t.
StepOf(t) == LockNext /\ threads'[t] # threads[t]

\* A step of the thread that holds the lock.
HolderStep == LockNext /\ lock # 0 /\ threads'[lock] # threads[lock]

\* The thread holding the lock is scheduled, and the solve or the mutation
\* function it calls returns: a holder that can go on does go on.
LockFairSpec == LockSpec /\ WF_vars(HolderStep)

-----------------------------------------------------------------------------
(* Properties *)

\* The response of the last operation, when it was a snapshot().
Snap == last.snap[1]
IsSnapshot == last.op = "snapshot"

\* The installed experiment is active, and its execution mode.
ExpActive == Len(active_experiment) = 1 /\ active_experiment[1].status = "ACTIVE"
ExpActiveIn(mode) == ExpActive /\ active_experiment[1].execution_mode = mode

\* The controller's state apart from the uuid counter and the history.
Controller == <<net, active_experiment, simulation_id, last_mutation_source>>

\* C1: at most one experiment is active: a begin_experiment call made while an
\* experiment is active raises the conflict error and leaves the installed
\* experiment as it is, and no step of any operation replaces an active
\* experiment by another active one.
C1_SingleActiveExperiment ==
    [][ /\ (IsActive(active_experiment) /\ last'.op = "begin_experiment"
               => /\ last'.raised = "RuntimeError"
                  /\ active_experiment' = active_experiment)
        /\ (IsActive(active_experiment) /\ IsActive(active_experiment')
               => active_experiment'[1].experiment_id
                      = active_experiment[1].experiment_id) ]_vars

\* C1 witness: a begin_experiment was refused while an experiment is active.
C1_Witness ==
    /\ last.op = "begin_experiment"
    /\ last.raised = "RuntimeError"
    /\ last.had_active
    /\ IsActive(active_experiment)

\* C2: every snapshot with blast_radius_triggered carries a containment
\* action and reports the experiment as ended.
C2_TriggeredImpliesContained ==
    IsSnapshot /\ Snap.blast_radius_triggered
        => Snap.containment_action # "None" /\ Snap.experiment_status = "ENDED"

\* C2 witness: a later snapshot (no containment in this call) still reports a
\* triggered experiment.
C2_Witness ==
    /\ IsSnapshot
    /\ Snap.blast_radius_triggered
    /\ ~last.contained

\* C3: a snapshot() whose solve fails while a sandbox experiment is active
\* returns converged=false and blast_radius_triggered=false, performs no
\* containment, and leaves net, simulation_id, last_mutation_source and the
\* experiment record unchanged.
C3_SandboxDivergenceReportsOnly ==
    [][ ExpActiveIn("sandbox") /\ last'.op = "snapshot" /\ last'.physics_failed
           => /\ ~last'.snap[1].converged
              /\ ~last'.snap[1].blast_radius_triggered
              /\ last'.snap[1].containment_action = "None"
              /\ ~last'.contained
              /\ UNCHANGED Controller ]_vars

\* C3 witness: a blackout was reported to an active sandbox experiment.
C3_Witness ==
    /\ IsSnapshot /\ last.physics_failed
    /\ ExpActiveIn("sandbox")
    /\ ~Snap.converged /\ ~Snap.blast_radius_triggered
    /\ Physical(net) # create_grid

\* C4: a snapshot() whose solve fails while a guardrailed experiment is active
\* returns the converged solve of the rolled-back baseline with
\* blast_radius_triggered, containment_action AUTO_ABORT_ROLLBACK and the
\* experiment ended.
C4_GuardrailedDivergenceContained ==
    [][ ExpActiveIn("guardrailed") /\ last'.op = "snapshot" /\ last'.physics_failed
           => /\ last'.snap[1].converged
              /\ last'.snap[1].metrics \in run_simulation(create_grid)
              /\ last'.snap[1].blast_radius_triggered
              /\ last'.snap[1].containment_action = "AUTO_ABORT_ROLLBACK"
              /\ last'.snap[1].experiment_status = "ENDED" ]_vars

\* C4 witness: the read right after a mutation found the network diverged and
\* answered with the rolled-back baseline.
C4_Witness ==
    /\ IsSnapshot /\ last.physics_failed /\ last.contained
    /\ Snap.converged
    /\ Snap.containment_action = "AUTO_ABORT_ROLLBACK"
    /\ net = create_grid

\* C5: every reset() leaves a fresh baseline network, no experiment and
\* last_mutation_source "reset", and its simulation_id is one the controller
\* never had before (so two resets in a row give two distinct ids, both
\* different from the one before them); reset() is refused in no state.
C5_ResetRestoresBaseline ==
    /\ [](uuid_count < MaxUuid => ENABLED reset)
    /\ [][ last'.op = "reset"
             => /\ net' = create_grid
                /\ active_experiment' = <<>>
                /\ last_mutation_source' = "reset"
                /\ simulation_id' \notin lineages
                /\ simulation_id' # simulation_id ]_vars

\* C5 witness: two reset() calls in a row, three lineage ids in all.
C5_Witness ==
    /\ last.op = "reset" /\ last.prev.op = "reset"
    /\ Cardinality(lineages) = 3
    /\ Len(active_experiment) = 0

\* C6: reset() right after a manual trip of an existing line yields the
\* baseline network again: every line in service, and the solver sees what it
\* sees on a fresh grid.
C6_TripThenResetIsBaseline ==
    [][ ( /\ last.op = "mutate" /\ last.fn = "trip_line"
          /\ last.arg \in DOMAIN net.line_in_service
          /\ last'.op = "reset" )
           => /\ ~net.line_in_service[last.arg]
              /\ net' = create_grid
              /\ \A l \in DOMAIN net'.line_in_service : net'.line_in_service[l]
              /\ run_simulation(net') = run_simulation(create_grid) ]_vars

\* C6 witness: a reset() taken right after tripping line 3.
C6_Witness ==
    /\ last.op = "reset"
    /\ last.prev = [op |-> "mutate", fn |-> "trip_line", arg |-> 3]
    /\ net.line_in_service[3]

\* C7: with no experiment active, mutate with trip_line on a line id that is
\* not in the network returns normally and leaves net, simulation_id and
\* active_experiment unchanged.
C7_TripUnknownLineIsNoOp ==
    [][ ( /\ ~ExpActive
          /\ last'.op = "mutate" /\ last'.fn = "trip_line"
          /\ last'.arg \notin DOMAIN net.line_in_service )
           => /\ last'.raised = "None"
              /\ UNCHANGED <<net, simulation_id, active_experiment>> ]_vars

\* C7 witness: such a call was made with no experiment installed, and the
\* network is still the fresh grid.
C7_Witness ==
    /\ last.op = "mutate" /\ last.fn = "trip_line"
    /\ last.arg \notin DOMAIN net.line_in_service
    /\ ~last.had_active /\ Len(active_experiment) = 0
    /\ last.raised = "None"
    /\ net = create_grid

\* C8: a snapshot carries a non-null estimated_load_loss_pct only when the
\* solve converged and a guardrailed experiment was active when it was taken;
\* with no active experiment or in sandbox mode it is null.
C8_LossReportedOnlyWhenGuardrailed ==
    [][ last'.op = "snapshot" /\ last'.snap[1].estimated_load_loss_pct # <<>>
           => /\ last'.snap[1].converged
              /\ ~last'.physics_failed
              /\ ExpActiveIn("guardrailed") ]_vars

\* C8 witness: a converged read of an active sandbox experiment, loss absent.
C8_Witness ==
    /\ IsSnapshot /\ Snap.converged
    /\ ExpActiveIn("sandbox")
    /\ Snap.estimated_load_loss_pct = <<>>
    /\ Snap.metrics[1].generation_mw < Snap.metrics[1].total_load_mw

\* The loss fraction of a snapshot's metrics, computed from the definition:
\* numerator and denominator of max(0, (load - gen)/load), or 0/1.
LossNum(m) ==
    IF m.total_load_mw > 0 /\ m.total_load_mw > m.generation_mw
    THEN m.total_load_mw - m.generation_mw ELSE 0
LossDen(m) == IF m.total_load_mw > 0 THEN m.total_load_mw ELSE 1

\* C9 as stated: the reported estimated_load_loss_pct equals
\* max(0, (total_load - generation)/total_load) exactly (0 when load <= 0).
C9_ReportedLossIsExact ==
    IsSnapshot /\ Snap.estimated_load_loss_pct # <<>>
        => Snap.estimated_load_loss_pct[1] * LossDen(Snap.metrics[1])
               = FractionUnit * LossNum(Snap.metrics[1])

\* C9 amended: the reported estimated_load_loss_pct is that value rounded to
\* four decimal places: within half a unit of 1/10000 of it, never negative,
\* and 0 when total_load <= 0 or generation >= total_load.
C9_ReportedLossIsRounded ==
    IsSnapshot /\ Snap.estimated_load_loss_pct # <<>>
        => LET e == Snap.estimated_load_loss_pct[1]
               d == e * LossDen(Snap.metrics[1]) - FractionUnit * LossNum(Snap.metrics[1])
           IN  /\ e >= 0
               /\ 2 * d <= LossDen(Snap.metrics[1])
               /\ -2 * d <= LossDen(Snap.metrics[1])
               /\ (LossNum(Snap.metrics[1]) = 0 => e = 0)

\* C9 witness: generation exceeded load under a guardrailed experiment and
\* the reported loss is 0.
C9_Witness ==
    /\ IsSnapshot /\ Snap.estimated_load_loss_pct = <<0>>
    /\ Snap.metrics[1].generation_mw > Snap.metrics[1].total_load_mw
    /\ Snap.metrics[1].total_load_mw > 0

C11_FailedBeginLeavesStateUnchanged ==
    [][ /\ ( last'.op = "begin_experiment" /\ ExpActive )
               => ( last'.raised = "RuntimeError" /\ UNCHANGED Controller )
        /\ ( /\ last'.op = "begin_experiment" /\ ~ExpActive
             /\ last'.fn \notin {"sandbox", "guardrailed"} )
               => ( last'.raised = "ValueError" /\ UNCHANGED Controller )
        /\ ( last'.op = "start_experiment" /\ ~READ_ONLY_MODE )
               => ( /\ last'.fn \notin SCENARIOS
                    /\ last'.raised = "HTTP404"
                    /\ UNCHANGED Controller )
        /\ ( last'.op = "begin_experiment" /\ last'.raised # "None" )
               => UNCHANGED Controller ]_vars

\* A start request for an unknown key has just been rejected while an ended
\* experiment was installed and the network carried a fault.
C11_Witness ==
    /\ last.op = "start_experiment" /\ last.raised = "HTTP404"
    /\ Len(active_experiment) = 1 /\ ~ExpActive
    /\ net # create_grid

\* C12: a successful begin_experiment happens exactly when no experiment is
\* active and the mode is "sandbox" or "guardrailed"; it installs, in place of
\* whatever record was there, an Experiment whose id was never issued before,
\* in phase "baseline", status ACTIVE, blast_radius_triggered False and
\* containment_action None, and it sets last_mutation_source to "scenario";
\* net and simulation_id are not touched.
C12_BeginInstallsFreshExperiment ==
    [][ last'.op = "begin_experiment"
           => /\ last'.raised = "None"
                     <=> ( ~ExpActive /\ last'.fn \in {"sandbox", "guardrailed"} )
              /\ last'.raised = "None"
                     => /\ Len(active_experiment') = 1
                        /\ active_experiment'[1].experiment_id \notin 1..uuid_count
                        /\ active_experiment'[1].phase = "baseline"
                        /\ active_experiment'[1].status = "ACTIVE"
                        /\ active_experiment'[1].execution_mode = last'.fn
                        /\ active_experiment'[1].blast_radius_triggered = FALSE
                        /\ active_experiment'[1].blast_radius_reason = "None"
                        /\ active_experiment'[1].containment_action = "None"
                        /\ last_mutation_source' = "scenario"
                        /\ UNCHANGED <<net, simulation_id>> ]_vars

\* begin_experiment has just succeeded for the second time without any reset
\* or rollback in between (identifier 2 went to the first experiment, which
\* had ended and has now been replaced).
C12_Witness ==
    /\ last.op = "begin_experiment" /\ last.raised = "None"
    /\ simulation_id = 1 /\ lineages = {1}
    /\ active_experiment[1].experiment_id = 3
    /\ ExpActive

\* C13: set_phase(p) changes nothing when there is no experiment or the
\* experiment has ended; when the experiment is active it sets phase to p,
\* whatever p and the current phase are, and changes no other field of the
\* experiment, nor net, simulation_id or last_mutation_source.
C13_SetPhaseOnlyWhileActive ==
    [][ last'.op = "set_phase"
           => /\ UNCHANGED <<net, simulation_id, last_mutation_source>>
              /\ IF ExpActive
                 THEN active_experiment' =
                          <<[active_experiment[1] EXCEPT !.phase = last'.fn]>>
                 ELSE UNCHANGED active_experiment ]_vars

\* set_phase has just put an active experiment into a phase that is none of
\* baseline, chaos, recovery.
C13_Witness ==
    /\ last.op = "set_phase" /\ last.fn = "warmup"
    /\ ExpActive /\ active_experiment[1].phase = "warmup"

\* C14 as stated: end_experiment() called when no experiment is active is a
\* no-op: net, active_experiment, simulation_id and last_mutation_source are
\* the same after the call as before it.
C14_EndWithoutActiveIsNoOp ==
    [][ ( last'.op = "end_experiment" /\ ~ExpActive )
           => UNCHANGED Controller ]_vars

\* C15: end_experiment() called while an experiment is active sets its status
\* to ENDED and its phase to "recovery" and last_mutation_source to
\* "end_experiment"; the record stays installed with every other field as it
\* was (id, scenario, blast_radius_triggered, containment_action), and net
\* and simulation_id are unchanged, so an injected fault stays in the network.
C15_EndKeepsRecordAndNetwork ==
    [][ ( last'.op = "end_experiment" /\ ExpActive )
           => /\ active_experiment' =
                     <<[active_experiment[1] EXCEPT !.status = "ENDED",
                                                    !.phase = "recovery"]>>
              /\ last_mutation_source' = "end_experiment"
              /\ UNCHANGED <<net, simulation_id>> ]_vars

\* end_experiment has just ended an active experiment whose scenario had been
\* injected: the network still carries the fault.
C15_Witness ==
    /\ last.op = "end_experiment" /\ last.had_active
    /\ Len(active_experiment) = 1
    /\ active_experiment[1].status = "ENDED"
    /\ active_experiment[1].phase = "recovery"
    /\ "hurricane_ida" \in net.chaos_applied
    /\ ~net.ext_grid_in_service

\* C16 as stated: when the function passed to mutate raises, net,
\* active_experiment, simulation_id and last_mutation_source are left exactly
\* as they were before the mutate call.
C16_FailedMutateLeavesStateUnchanged ==
    [][ ( last'.op = "mutate" /\ last'.raised # "None" )
           => UNCHANGED Controller ]_vars

\* C17: each containment performed by snapshot() is one step that sets the
\* active guardrailed experiment's containment_action to AUTO_ABORT_ROLLBACK,
\* its status to ENDED and its phase to "recovery", replaces net by a fresh
\* baseline, gives simulation_id a value never used before and sets
\* last_mutation_source to "rollback"; the record stays installed with its
\* id, scenario, mode and threshold unchanged.
C17_ContainmentIsOneAtomicStep ==
    [][ ( last'.op = "snapshot" /\ last'.contained )
           => /\ ExpActiveIn("guardrailed")
              /\ active_experiment' =
                     <<[active_experiment[1] EXCEPT
                           !.containment_action = "AUTO_ABORT_ROLLBACK",
                           !.status = "ENDED",
                           !.phase = "recovery",
                           !.blast_radius_triggered = TRUE,
                           !.blast_radius_reason =
                               active_experiment'[1].blast_radius_reason]>>
              /\ net' = create_grid
              /\ simulation_id' \notin lineages
              /\ last_mutation_source' = "rollback" ]_vars

\* A snapshot has just contained an experiment that was in the chaos phase
\* with its scenario injected: the network is the baseline again under a new
\* simulation_id.
C17_Witness ==
    /\ last.op = "snapshot" /\ last.contained /\ last.had_active
    /\ active_experiment[1].containment_action = "AUTO_ABORT_ROLLBACK"
    /\ active_experiment[1].phase = "recovery"
    /\ net = create_grid /\ simulation_id > 1
    /\ last_mutation_source = "rollback"
    /\ Snap.context.simulation_id = simulation_id

\* The installed experiment has been contained.
ExpContained ==
    Len(active_experiment) = 1 /\ active_experiment[1].containment_action # "None"

\* The ExperimentContext the step returns, from experiment_context() or in
\* the response of snapshot().
ReturnedContext(l) ==
    IF l.op = "experiment_context" THEN l.ctx
    ELSE IF l.op = "snapshot" THEN <<l.snap[1].context>>
    ELSE <<>>

\* C18 as stated: once an experiment has been contained it is inert: while
\* its record is installed no step changes its phase or makes its status
\* ACTIVE again, and no ExperimentContext returned after a later mutate (the
\* mutation source then being "manual" or "scenario") carries that
\* experiment's id.
C18_ContainedExperimentIsInert ==
    [][ ExpContained
           => /\ ( /\ Len(active_experiment') = 1
                   /\ active_experiment'[1].experiment_id
                          = active_experiment[1].experiment_id )
                     => UNCHANGED active_experiment
              /\ last'.op = "set_phase" => UNCHANGED active_experiment
              /\ \A ctx \in { ReturnedContext(last')[i] :
                                  i \in 1..Len(ReturnedContext(last')) } :
                     ctx.mutation_source \in {"manual", "scenario"}
                        => ctx.experiment_id # active_experiment[1].experiment_id
      ]_vars

\* The guardrail flags the controller holds: those of the installed record,
\* False and None when there is none.
HeldTriggered(exp) == Len(exp) = 1 /\ exp[1].blast_radius_triggered
HeldContainment(exp) == IF Len(exp) = 1 THEN exp[1].containment_action ELSE "None"

\* In every step but those of `exempt`, the flags that are set stay set, and
\* a snapshot() taken while they are set reports them.
FlagsPersistExcept(exempt) ==
    ~exempt
       => /\ HeldTriggered(active_experiment) => HeldTriggered(active_experiment')
          /\ HeldContainment(active_experiment) # "None"
                 => HeldContainment(active_experiment')
                        = HeldContainment(active_experiment)
          /\ last'.op = "snapshot"
                 => /\ HeldTriggered(active_experiment)
                           => last'.snap[1].blast_radius_triggered
                    /\ HeldContainment(active_experiment) # "None"
                           => last'.snap[1].containment_action
                                  = HeldContainment(active_experiment)

\* C19 as stated: once blast_radius_triggered and containment_action are set,
\* the values the controller holds and reports never go back to False / None
\* under any operation other than reset().
C19_FlagsPersistUntilReset ==
    [][ FlagsPersistExcept(last'.op = "reset") ]_vars

\* C19, amended: once blast_radius_triggered and containment_action are set,
\* the values the controller holds and reports never go back to False / None
\* under any operation other than reset(), which discards the record, and a
\* successful begin_experiment(), which replaces it by a new one; every
\* snapshot() taken until then reports them.
C19_FlagsPersistUntilResetOrBegin ==
    [][ FlagsPersistExcept(\/ last'.op = "reset"
                           \/ ( last'.op = "begin_experiment"
                                /\ last'.raised = "None" )) ]_vars

\* A status read after containment, a later manual mutation and an
\* end_experiment() call still reports the flags.
C19_Witness ==
    /\ last.op = "snapshot" /\ ~last.contained /\ ~last.had_active
    /\ HeldTriggered(active_experiment)
    /\ HeldContainment(active_experiment) = "AUTO_ABORT_ROLLBACK"
    /\ Snap.blast_radius_triggered
    /\ Snap.containment_action = "AUTO_ABORT_ROLLBACK"
    /\ Snap.context.mutation_source = "end_experiment"
    /\ net # create_grid

\* C20: simulation_id changes in a step if and only if the step replaces net
\* by a newly built baseline, which reset() and a containing snapshot() do and
\* nothing else does: in those steps net becomes the baseline and
\* simulation_id takes a value never used before; begin_experiment,
\* set_phase, end_experiment, mutate, experiment_context and a snapshot that
\* does not contain leave simulation_id unchanged.
C20_LineageChangesIffNetworkReplaced ==
    [][ /\ ( last'.op = "reset" \/ ( last'.op = "snapshot" /\ last'.contained ) )
               => /\ simulation_id' # simulation_id
                  /\ simulation_id' \notin lineages
                  /\ net' = create_grid
        /\ ( /\ last'.op \in {"begin_experiment", "set_phase", "end_experiment",
                               "mutate", "experiment_context", "snapshot"}
             /\ ~last'.contained )
               => UNCHANGED simulation_id
        /\ last'.op \in {"reset", "begin_experiment", "set_phase", "end_experiment",
                          "mutate", "experiment_context", "snapshot"} ]_vars

\* The controller is in its third lineage: the network has been replaced
\* twice, the last time by a reset() that discarded an experiment, and an
\* experiment_context() read has just returned the current simulation_id.
C20_Witness ==
    /\ last.op = "experiment_context"
    /\ last.ctx[1].simulation_id = simulation_id
    /\ Cardinality(lineages) = 3
    /\ Len(active_experiment) = 0
    /\ uuid_count > 3

\* C21 as stated: in every reachable state last_mutation_source is one of
\* init, scenario, manual, reset, rollback.
C21_SourceIsOneOfFive ==
    last_mutation_source \in {"init", "scenario", "manual", "reset", "rollback"}

\* The tag a step leaves in last_mutation_source: that of the operation, and
\* the old one after an operation that does not tag.
TagAfter(l, old) ==
    CASE l.op = "reset" -> "reset"
      [] l.op = "begin_experiment" /\ l.raised = "None" -> "scenario"
      [] l.op = "end_experiment" -> "end_experiment"
      [] l.op = "mutate" /\ l.fn \in SCENARIOS -> "scenario"
      [] l.op = "mutate" /\ l.fn \notin SCENARIOS -> "manual"
      [] l.op = "snapshot" /\ l.contained -> "rollback"
      [] OTHER -> old

\* C21, amended: last_mutation_source is always one of init, scenario,
\* manual, reset, rollback, end_experiment, and it names the last operation
\* that tagged it: reset, a successful begin_experiment ("scenario"),
\* end_experiment, mutate (its mutation_source, whether or not fn raised) or
\* a containment ("rollback"); other steps leave it as it is.
C21_SourceNamesLastTaggingOperation ==
    /\ [](last_mutation_source \in {"init", "scenario", "manual", "reset",
                                     "rollback", "end_experiment"})
    /\ [][ last_mutation_source' = TagAfter(last', last_mutation_source) ]_vars

\* end_experiment() has tagged the controller while the network still
\* carries the scenario that touched it last.
C21_Witness ==
    /\ last_mutation_source = "end_experiment"
    /\ last.op = "end_experiment"
    /\ "hurricane_ida" \in net.chaos_applied

\* C22: when containment fires in the convergence case (the loss threshold
\* is reached), the response carries the metrics solved on the network as it
\* was before the rollback, while its containment_action, experiment_status,
\* experiment_phase and context (the new simulation_id, mutation_source
\* "rollback", phase "recovery") are those after the rollback.
C22_ThresholdContainmentMixesPreAndPost ==
    [][ ( last'.op = "snapshot" /\ last'.contained /\ ~last'.physics_failed )
           => /\ last'.snap[1].converged
              /\ Len(last'.snap[1].metrics) = 1
              /\ last'.snap[1].metrics[1].total_load_mw = net.load_p_mw
              /\ last'.snap[1].metrics[1].generation_mw \in GenerationOutcomes(net)
                                                             \cup {BaseGen}
              /\ last'.snap[1].estimated_load_loss_pct # <<>>
              /\ last'.snap[1].containment_action = "AUTO_ABORT_ROLLBACK"
              /\ last'.snap[1].experiment_status = "ENDED"
              /\ last'.snap[1].experiment_phase = "recovery"
              /\ last'.snap[1].context =
                     [ experiment_id   |-> active_experiment[1].experiment_id,
                       scenario        |-> active_experiment[1].scenario,
                       phase           |-> "recovery",
                       simulation_id   |-> simulation_id',
                       mutation_source |-> "rollback" ]
              /\ simulation_id' # simulation_id
              /\ last_mutation_source' = "rollback" ]_vars

\* A threshold containment has just returned: the metrics in the response
\* are those of the faulted network (three times the baseline load), not of
\* the baseline network the controller now holds.
C22_Witness ==
    /\ IsSnapshot /\ last.contained /\ ~last.physics_failed
    /\ net = create_grid
    /\ Snap.metrics[1].total_load_mw = 3 * BaseLoad
    /\ Snap.metrics[1].generation_mw < Snap.metrics[1].total_load_mw
    /\ Snap.context.simulation_id = simulation_id
    /\ Snap.context.mutation_source = "rollback"

\* C23: when containment fires in the divergence case, snapshot() solves
\* exactly once more, on the rolled-back network and in the same step; if
\* that second solve converges the response is its result (the baseline's
\* metrics, no error), if it fails the response has converged = False and
\* the blackout error; in both cases the response carries the context after
\* the rollback (new simulation_id, mutation_source "rollback", phase
\* "recovery") and never the simulation_id from before the rollback.  Every
\* other snapshot() solves once.
C23_DivergenceContainmentProbesOnce ==
    [][ last'.op = "snapshot"
           => IF last'.contained /\ last'.physics_failed
              THEN /\ last'.solves = 2
                   /\ net' = create_grid
                   /\ last'.snap[1].context =
                          [ experiment_id   |-> active_experiment[1].experiment_id,
                            scenario        |-> active_experiment[1].scenario,
                            phase           |-> "recovery",
                            simulation_id   |-> simulation_id',
                            mutation_source |-> "rollback" ]
                   /\ last'.snap[1].context.simulation_id # simulation_id
                   /\ last'.snap[1].containment_action = "AUTO_ABORT_ROLLBACK"
                   /\ last'.snap[1].blast_radius_triggered
                   /\ last'.snap[1].estimated_load_loss_pct = <<>>
                   /\ IF last'.snap[1].converged
                      THEN /\ last'.snap[1].error = "None"
                           /\ last'.snap[1].metrics =
                                  << [ converged     |-> TRUE,
                                       total_load_mw |-> BaseLoad,
                                       generation_mw |-> BaseGen ] >>
                      ELSE /\ last'.snap[1].error = "Powerflow failed (Blackout)"
                           /\ last'.snap[1].metrics = <<>>
              ELSE last'.solves = 1 ]_vars

\* A divergence containment whose second solve failed too: the response is
\* a blackout response with the context of the new lineage.
C23_Witness ==
    /\ IsSnapshot /\ last.contained /\ last.physics_failed
    /\ ~Snap.converged
    /\ last.solves = 2
    /\ Snap.context.simulation_id = simulation_id
    /\ Snap.context.mutation_source = "rollback"
    /\ net = create_grid

\* C24: every response of snapshot(), on each of its return paths, carries
\* blast_radius_triggered, blast_radius_reason, containment_action,
\* experiment_status, experiment_phase and a context that equal the fields
\* the experiment record has when snapshot() returns; with no experiment
\* they are False, None, None, None, None and the context with
\* experiment_id "none", scenario "none", phase "baseline"; the context
\* always carries the simulation_id and last_mutation_source the controller
\* has when snapshot() returns.
C24_SnapshotCarriesExperimentFields ==
    [][ last'.op = "snapshot"
           => /\ last'.snap[1].context.simulation_id = simulation_id'
              /\ last'.snap[1].context.mutation_source = last_mutation_source'
              /\ IF Len(active_experiment') = 1
                 THEN /\ last'.snap[1].blast_radius_triggered
                             = active_experiment'[1].blast_radius_triggered
                      /\ last'.snap[1].blast_radius_reason
                             = active_experiment'[1].blast_radius_reason
                      /\ last'.snap[1].containment_action
                             = active_experiment'[1].containment_action
                      /\ last'.snap[1].experiment_status = active_experiment'[1].status
                      /\ last'.snap[1].experiment_phase = active_experiment'[1].phase
                      /\ last'.snap[1].context.experiment_id
                             = active_experiment'[1].experiment_id
                      /\ last'.snap[1].context.scenario = active_experiment'[1].scenario
                      /\ last'.snap[1].context.phase = active_experiment'[1].phase
                 ELSE /\ last'.snap[1].blast_radius_triggered = FALSE
                      /\ last'.snap[1].blast_radius_reason = "None"
                      /\ last'.snap[1].containment_action = "None"
                      /\ last'.snap[1].experiment_status = "None"
                      /\ last'.snap[1].experiment_phase = "None"
                      /\ last'.snap[1].context.experiment_id = 0
                      /\ last'.snap[1].context.scenario = "none"
                      /\ last'.snap[1].context.phase = "baseline" ]_vars

\* The blackout response of a sandbox experiment in the chaos phase: it is
\* built by _build_response and carries the record's status and phase.
C24_Witness ==
    /\ IsSnapshot /\ last.physics_failed /\ ~last.contained
    /\ ExpActiveIn("sandbox")
    /\ active_experiment[1].phase = "chaos"
    /\ Snap.experiment_status = "ACTIVE"
    /\ Snap.experiment_phase = "chaos"
    /\ Snap.context.experiment_id = active_experiment[1].experiment_id

\* The status request that has just been answered.
IsStatus == last.op = "get_grid_status"
Response == last.response[1]

\* The payload get_grid_status answers a snapshot with, whatever the voltage.
Payload(snap, status) ==
    [ status                  |-> status,
      message                 |-> IF snap.converged THEN "None" ELSE snap.error,
      context                 |-> snap.context,
      execution_mode          |-> snap.execution_mode,
      estimated_load_loss_pct |-> snap.estimated_load_loss_pct,
      blast_radius_triggered  |-> snap.blast_radius_triggered,
      blast_radius_reason     |-> snap.blast_radius_reason,
      containment_action      |-> IF snap.converged THEN <<>>
                                  ELSE <<snap.containment_action>> ]

\* C27: a status request whose telemetry sink failed -- no client since
\* start-up, or a write that raised -- is answered without an error and with
\* the payload of its snapshot, exactly as when the point is written, and it
\* changes the controller only as its snapshot did: not at all unless the
\* snapshot contained an experiment.
C27_SinkFailureIsSwallowed ==
    [][ ( last'.op = "get_grid_status" /\ last'.fn \in {"no_client", "write_failed"} )
            => ( /\ last'.raised = "None"
                 /\ Len(last'.response) = 1
                 /\ last'.response[1].status \in HealthOutcomes \cup {"BLACKOUT"}
                 /\ last'.response[1].status = "BLACKOUT" <=> ~last'.snap[1].converged
                 /\ last'.response[1]
                        = Payload(last'.snap[1], last'.response[1].status)
                 /\ ( ~last'.contained => UNCHANGED Controller )
                 /\ ( last'.contained => ( /\ Guardrailed(active_experiment)
                                           /\ net' = create_grid
                                           /\ last_mutation_source' = "rollback" ) ) ) ]_vars

\* A status request of an active experiment on a faulted network has just
\* been answered with a voltage health although the write of its point raised.
C27_Witness ==
    /\ IsStatus /\ last.fn = "write_failed"
    /\ ExpActive /\ net # create_grid
    /\ last.raised = "None"
    /\ Response.status \in HealthOutcomes

\* C28: a status request whose solve failed is answered without an error.
\* Unless an active guardrailed experiment was contained, the snapshot has
\* converged = False and the controller is unchanged; after a containment the
\* snapshot is the solve of the rolled-back network when that converges and a
\* converged = False response when it does not.  The payload has status
\* BLACKOUT exactly when the snapshot has converged = False.
C28_FailedSolveBecomesData ==
    [][ ( last'.op = "get_grid_status" /\ last'.physics_failed )
            => ( /\ last'.raised = "None"
                 /\ Len(last'.snap) = 1 /\ Len(last'.response) = 1
                 /\ last'.contained <=> Guardrailed(active_experiment)
                 /\ ( ~last'.contained
                        => ( ~last'.snap[1].converged /\ UNCHANGED Controller ) )
                 /\ ( ( last'.contained /\ last'.snap[1].converged )
                        => ( /\ last'.snap[1].metrics = <<SnapshotDict(create_grid, BaseGen)>>
                             /\ net' = create_grid ) )
                 /\ ( ~last'.snap[1].converged
                        => last'.snap[1].error = "Powerflow failed (Blackout)" )
                 /\ last'.response[1].status = "BLACKOUT" <=> ~last'.snap[1].converged
                 /\ ( ~last'.snap[1].converged
                        => last'.response[1].message = "Powerflow failed (Blackout)" ) ) ]_vars

\* The solve of an active sandbox experiment's network has just failed and
\* the status request was answered with BLACKOUT, the experiment still active.
C28_Witness ==
    /\ IsStatus /\ last.physics_failed /\ ~last.contained
    /\ ExpActiveIn("sandbox")
    /\ Response.status = "BLACKOUT"

\* The handlers that call _require_writable() first.
WriteHandlers == {"start_experiment", "api_end_experiment", "run_scenario",
                  "api_trip_line", "load_spike", "reset_grid"}

\* C29: with READ_ONLY_MODE on, every step of the API is a status request or
\* a write request answered with HTTP 403 before any controller call, no
\* request is left between two controller calls, and net, active_experiment,
\* simulation_id and last_mutation_source keep their start-up values.
C29_ReadOnlyKeepsStartupState ==
    /\ [] ( READ_ONLY_MODE => ( /\ net = create_grid
                                /\ active_experiment = <<>>
                                /\ simulation_id = 1
                                /\ last_mutation_source = "init"
                                /\ pending = <<>> ) )
    /\ [][ READ_ONLY_MODE
             => ( /\ \/ last'.op = "get_grid_status"
                     \/ last'.op \in WriteHandlers /\ last'.raised = "HTTP403"
                  /\ UNCHANGED Controller ) ]_vars

\* A start request for a known scenario has just been rejected because the
\* API is read-only.
C29_Witness ==
    /\ READ_ONLY_MODE
    /\ last.op = "start_experiment" /\ last.fn \in SCENARIOS
    /\ last.raised = "HTTP403"

\* The i-th request in flight is an inject request, and this step is its
\* controller.mutate call returning normally: the request succeeds.
InjectSucceeds(i) ==
    /\ pending[i].handler = "run_scenario"
    /\ pending' = Overtaken(Others(i))
    /\ last'.op = "mutate" /\ last'.raised = "None"

\* C30: an inject request for a known key that succeeds has applied the
\* scenario function to the network as it was and left last_mutation_source
\* = "scenario"; when it was made while an experiment was active, an
\* experiment that is active afterwards is in phase "chaos", and when it was
\* made while none was active and no other request's call took effect before
\* it returned, none is active afterwards; a request for an unknown key
\* changes no state.
C30_InjectLeavesExperimentInChaos ==
    [][ /\ \A i \in DOMAIN pending :
              InjectSucceeds(i)
                  => ( /\ net' = ScenarioFn(pending[i].key, net).net
                       /\ last_mutation_source' = "scenario"
                       /\ ( ( pending[i].had_active /\ IsActive(active_experiment') )
                              => active_experiment'[1].phase = "chaos" )
                       /\ ( ~pending[i].had_active /\ pending[i].overtaken = 0 )
                              => ~IsActive(active_experiment') )
        /\ ( last'.op = "run_scenario" /\ ~READ_ONLY_MODE )
              => ( /\ last'.fn \notin SCENARIOS
                   /\ last'.raised = "HTTP404"
                   /\ UNCHANGED <<Controller, pending>> ) ]_vars

\* A thread is inside a controller operation: between the entry of its
\* `with self._lock:` block and the exit.
InBody(t) == threads[t].pc \notin {"idle", "get_grid_status_log"}

\* The network has been replaced and the lineage id is still the old one.
LineageTorn(t) == threads[t].pc \in {"reset_62", "rollback_150"}

\* The experiment is ENDED and its phase is not yet "recovery".
EndedNotRecovered ==
    /\ Len(active_experiment) = 1
    /\ active_experiment[1].status = "ENDED"
    /\ active_experiment[1].phase # "recovery"

\* The first statement of each operation: the state it is about to observe.
EntryPcs == {"reset_61", "begin_experiment_74", "set_phase_97", "end_experiment_102",
             "mutate_115", "experiment_context_343", "snapshot_221"}

\* C25: at most one thread is inside a controller operation, and it holds the
\* lock.  Hence an operation about to run its first statement finds no other
\* thread between a network replacement and the new lineage id, and no
\* experiment that is ENDED but not in phase "recovery"; no such experiment is
\* left behind when the lock is free; and when snapshot() takes its
\* containment decision the network is the one it solved.
C25_OperationsAreMutuallyExclusive ==
    /\ \A t \in Threads : InBody(t) => lock = t
    /\ \A t, u \in Threads : ( InBody(t) /\ InBody(u) ) => t = u
    /\ \A t \in Threads :
          threads[t].pc \in EntryPcs
              => ( /\ ~EndedNotRecovered
                   /\ \A u \in Threads \ {t} : ~LineageTorn(u) )
    /\ lock = 0 => ~EndedNotRecovered
    /\ \A t \in Threads :
          threads[t].pc \in {"snapshot_243", "snapshot_300"}
              => threads[t].solved = <<net>>

\* A snapshot() has replaced the network in a rollback and not yet generated
\* the new lineage id, while the other thread is logging the point of an
\* earlier status request.
C25_Witness ==
    /\ At(2, "rollback_150") /\ lock = 2
    /\ net = create_grid /\ ~IsActive(active_experiment)
    /\ At(1, "get_grid_status_log")

\* C26: a thread logs the point of a status request only after its
\* snapshot() has left the `with self._lock:` block: it does not hold the
\* lock, the logging step neither takes the lock nor touches the controller,
\* and whenever no thread is inside a controller operation an idle thread can
\* enter one, however many threads are logging.
C26_TelemetryOutsideLock ==
    /\ [] ( \A t \in Threads :
               At(t, "get_grid_status_log")
                   => ( /\ lock # t
                        /\ \A u \in Threads :
                              ( At(u, "idle") /\ \A v \in Threads : ~InBody(v) )
                                  => ENABLED experiment_context_342(u) ) )
    /\ [][ \A t \in Threads :
               ( At(t, "get_grid_status_log") /\ threads'[t].pc = "idle" )
                   => UNCHANGED <<Controller, lock>> ]_vars

\* One thread is logging the point of its status request while the other
\* holds the lock inside a mutation.
C26_Witness ==
    /\ At(1, "get_grid_status_log")
    /\ At(2, "mutate_116") /\ lock = 2

\* C31: a scenario function called through mutate on a network that already
\* carries the scenario's marker raises RuntimeError and leaves the network
\* as it was; called on a network without the marker it returns, changes the
\* network and sets the marker.  Markers are never removed while the lineage
\* id stays the same, and a network that comes with a new lineage id -- from
\* reset() or from a containment rollback -- carries none.
C31_ScenarioAppliesOncePerInstance ==
    [][ /\ ( last'.op = "mutate" /\ last'.fn \in SCENARIOS
             /\ last'.fn \in net.chaos_applied )
               => ( last'.raised = "RuntimeError" /\ net' = net )
        /\ ( last'.op = "mutate" /\ last'.fn \in SCENARIOS
             /\ last'.fn \notin net.chaos_applied )
               => ( /\ last'.raised = "None"
                    /\ net'.chaos_applied = net.chaos_applied \cup {last'.fn}
                    /\ Physical(net') # Physical(net) )
        /\ ( simulation_id' = simulation_id )
               => net.chaos_applied \subseteq net'.chaos_applied
        /\ ( simulation_id' # simulation_id )
               => ( /\ net' = create_grid
                    /\ net'.chaos_applied = {}
                    /\ \/ last'.op = "reset"
                       \/ last'.op = "snapshot" /\ last'.contained ) ]_vars

\* On a network that replaced an earlier one in a containment rollback the
\* scenario was applied again, and its next application has just failed.
C31_Witness ==
    /\ last.op = "mutate" /\ last.fn = "hurricane_ida"
    /\ last.raised = "RuntimeError"
    /\ "hurricane_ida" \in net.chaos_applied
    /\ simulation_id # 1
    /\ Len(active_experiment) = 1
    /\ active_experiment[1].containment_action = "AUTO_ABORT_ROLLBACK"

\* The installed experiment is a guardrailed one whose status is ENDED.
ExpEndedGuardrailed ==
    /\ Len(active_experiment) = 1
    /\ active_experiment[1].status = "ENDED"
    /\ active_experiment[1].execution_mode = "guardrailed"

\* C33: the guardrail acts only on an ACTIVE experiment.  With a
\* guardrailed experiment that has been ended installed, a snapshot() --
\* whether its solve diverges or converges with any loss -- triggers no
\* containment, leaves network, lineage id, mutation source and every field
\* of the record (blast_radius_triggered among them) as they were, reports
\* a failed solve as converged = False and estimates no loss; while that
\* record is installed the network is changed only by mutate or reset.
C33_GuardrailNeedsActiveExperiment ==
    [][ ExpEndedGuardrailed
           => /\ ( last'.op = "snapshot" )
                    => /\ ~last'.contained
                       /\ last'.solves = 1
                       /\ Controller' = Controller
                       /\ last'.snap[1].converged = ~last'.physics_failed
                       /\ last'.snap[1].estimated_load_loss_pct = <<>>
                       /\ last'.snap[1].blast_radius_triggered
                              = active_experiment[1].blast_radius_triggered
                       /\ last'.snap[1].experiment_status = "ENDED"
              /\ ( net' # net ) => last'.op \in {"mutate", "reset"} ]_vars

\* A guardrailed experiment was ended by end_experiment, not by the
\* guardrail, and a snapshot() of its faulted network has just diverged.
C33_Witness ==
    /\ IsSnapshot /\ last.physics_failed
    /\ ExpEndedGuardrailed
    /\ active_experiment[1].containment_action = "None"
    /\ ~active_experiment[1].blast_radius_triggered
    /\ ~Snap.converged
    /\ ~Snap.blast_radius_triggered
    /\ "hurricane_ida" \in net.chaos_applied

\* The guardrail's trigger for the snapshot() step just taken: an ACTIVE
\* guardrailed experiment was installed and the solve failed, or converged
\* with a loss fraction at or above the experiment's max_load_loss_pct.
GuardrailTriggerIn(exp, l) ==
    /\ Len(exp) = 1
    /\ exp[1].status = "ACTIVE"
    /\ exp[1].execution_mode = "guardrailed"
    /\ \/ l.physics_failed
       \/ /\ Len(l.snap[1].metrics) = 1
          /\ FractionUnit * LossNum(l.snap[1].metrics[1])
                >= exp[1].max_load_loss_pct * LossDen(l.snap[1].metrics[1])

\* C35: status reads are side-effect free except for containment.  A
\* snapshot() step leaves network, experiment record, lineage id and
\* mutation source exactly as they were unless an ACTIVE guardrailed
\* experiment diverged or reached its loss threshold, in which case it
\* contains; experiment_context() never changes any of them.
C35_ReadsChangeStateOnlyOnContainment ==
    [][ /\ ( last'.op = "snapshot" )
              => /\ last'.contained = GuardrailTriggerIn(active_experiment, last')
                 /\ ( Controller' # Controller ) = last'.contained
                 /\ ~last'.contained => uuid_count' = uuid_count
        /\ ( last'.op = "experiment_context" )
              => /\ Controller' = Controller
                 /\ uuid_count' = uuid_count ]_vars

\* A converged snapshot() of a faulted network under an ACTIVE sandbox
\* experiment has just returned, the controller being as it was before.
C35_Witness ==
    /\ IsSnapshot /\ ~last.contained /\ ~last.physics_failed
    /\ ExpActiveIn("sandbox")
    /\ Snap.metrics[1].generation_mw < Snap.metrics[1].total_load_mw
    /\ "hurricane_ida" \in net.chaos_applied
    /\ last_mutation_source = "scenario"

\* The step is a rollback: the lineage id is regenerated and the mutation
\* source becomes "rollback".
IsRollbackStep ==
    simulation_id' # simulation_id /\ last_mutation_source' = "rollback"

\* C34: containment fires at most once per experiment record.  Every
\* rollback is made by a snapshot() step that finds one ACTIVE guardrailed
\* experiment which has not been contained and leaves that same record ENDED
\* with its containment_action set; a contained record stays ENDED and
\* contained for as long as it is installed; and the id of a record that
\* begin_experiment installs is one no record has had before, so a replaced
\* id never comes back.  Hence no experiment id sees a second rollback.
C34_ContainmentOncePerExperiment ==
    /\ [](Len(active_experiment) = 1
             => active_experiment[1].experiment_id <= uuid_count)
    /\ [][ /\ IsRollbackStep
                => /\ last'.op = "snapshot" /\ last'.contained
                   /\ ExpActiveIn("guardrailed")
                   /\ active_experiment[1].containment_action = "None"
                   /\ ~active_experiment[1].blast_radius_triggered
                   /\ Len(active_experiment') = 1
                   /\ active_experiment'[1].experiment_id
                          = active_experiment[1].experiment_id
                   /\ active_experiment'[1].status = "ENDED"
                   /\ active_experiment'[1].containment_action
                          = "AUTO_ABORT_ROLLBACK"
           /\ ( last'.op = "snapshot" /\ last'.contained ) => IsRollbackStep
           /\ ( /\ ExpContained
                /\ Len(active_experiment') = 1
                /\ active_experiment'[1].experiment_id
                       = active_experiment[1].experiment_id )
                => /\ active_experiment'[1].status = "ENDED"
                   /\ active_experiment'[1].containment_action
                          = active_experiment[1].containment_action
                   /\ ~IsRollbackStep
           /\ ( /\ Len(active_experiment') = 1
                /\ \/ Len(active_experiment) = 0
                   \/ active_experiment'[1].experiment_id
                          # active_experiment[1].experiment_id )
                => /\ last'.op = "begin_experiment"
                   /\ active_experiment'[1].experiment_id > uuid_count
                   /\ active_experiment'[1].containment_action = "None" ]_vars

\* The experiment was contained earlier; its scenario was injected again on
\* the rolled-back network and a snapshot() of it has just diverged without
\* a second rollback.
C34_Witness ==
    /\ IsSnapshot /\ last.physics_failed /\ ~last.contained
    /\ ExpContained
    /\ active_experiment[1].execution_mode = "guardrailed"
    /\ last_mutation_source = "scenario"
    /\ active_experiment[1].scenario \in net.chaos_applied
    /\ simulation_id # 1

\* The phase of the installed experiment, "None" when there is none.
PhaseOf(exp) == IF Len(exp) = 1 THEN exp[1].phase ELSE "None"

\* The i-th request in flight is an inject request, and this step is its
\* controller.mutate call.
InjectMutates(i) ==
    /\ pending[i].handler = "run_scenario"
    /\ pending' = Overtaken(Others(i))
    /\ last'.op = "mutate" /\ last'.fn = pending[i].key

\* C36: an inject-scenario request takes effect atomically.  While an
\* inject request is between its set_phase("chaos") and its mutate, the only
\* controller call that takes effect is that mutate -- no status read, end,
\* reset, start or other inject request's call; and when its scenario
\* function raises, the installed experiment's phase is what it was before
\* the request.
C36_InjectIsAtomic ==
    [][ \A i \in DOMAIN pending :
            pending[i].handler = "run_scenario"
               => /\ ( pending' # pending ) => InjectMutates(i)
                  /\ ( InjectMutates(i) /\ last'.raised # "None" )
                         => PhaseOf(active_experiment') = pending[i].phase ]_vars

\* C37: under the interleavings of start and inject requests, an ACTIVE
\* experiment to whose network an inject request has applied a scenario
\* since the experiment began is in phase "chaos".
C37_InjectedExperimentIsInChaos ==
    [] ( ( IsActive(active_experiment) /\ injected_since_begin )
            => active_experiment[1].phase = "chaos" )

\* C32: a thread holds the lock exactly while it is inside the `with` block
\* of an operation, so every exit -- return or raise -- has released it; the
\* lock is taken only when it is free and only by a thread outside every
\* block, so no operation acquires it while holding it; the holder of the
\* lock can always take its next step and some thread can always step, so
\* there is no deadlock; and, the holder of the lock being scheduled, again
\* and again no thread is inside a block: every operation that has entered
\* its block leaves it, and the lock is free for the callers waiting for it.
C32_LockReleasedAndOperationsComplete ==
    /\ [] ( \A t \in Threads : ( lock = t ) <=> InBody(t) )
    /\ [][ \A t \in Threads :
               ( lock' = t /\ lock # t ) => ( lock = 0 /\ At(t, "idle") ) ]_vars
    /\ [] ( /\ ENABLED LockNext
            /\ \A t \in Threads : lock = t => ENABLED StepOf(t) )
    /\ []<>( \A t \in Threads : ~InBody(t) )

\* A thread holds the lock at line 116 of mutate, about to call a scenario
\* function that will raise because the scenario is already applied, while
\* the other thread is outside the controller.
C32_Witness ==
    /\ lock = 1 /\ At(1, "mutate_116")
    /\ threads[1].m.fn = "hurricane_ida"
    /\ "hurricane_ida" \in net.chaos_applied
    /\ At(2, "idle")

====
